---- MODULE Spec2Model ----
(***************************************************************************)
(* AbendInfo: crash capture and cross-reset persistence for the ESP8266.   *)
(*                                                                         *)
(* The model follows src/src/AbendHandler.cpp and src/src/AbendInfo.h in   *)
(* the build the examples use (ABENDINFO_OPTION, ABENDINFO_HEAP_MONITOR    *)
(* and ABENDINFO_IDENTIFY_SDK_PANIC all 1).                                *)
(*                                                                         *)
(* A uint32_t that is compared or copied only is an integer below 2^31     *)
(* (every address and tag of the program is); the checksum, whose bits     *)
(* matter, is the tuple <<b3, b2, b1, b0>> of its four bytes.              *)
(***************************************************************************)
EXTENDS Integers, Sequences, FiniteSets, TLC

VARIABLES
    phase,          \* where the boot cycle is: "boot", "run", "fault", "crashed"
    abendInfo,      \* the live record (.noinit)
    resetAbendInfo, \* the promoted record (.noinit)
    resetInfo,      \* Arduino's copy of the platform's rst_info of this boot
    rst_info,       \* the struct rst_info Postmortem hands to the crash callback
    hw,             \* the fault as the hardware reported it (kept in RTC memory)
    excsave1,       \* special register EXCSAVE1: a0 at the time of the fault
    putc2,          \* the ROM's second output hook: "gasp" or "null"
    umm,            \* the allocator's counters
    call,           \* the return address and PS of the interceptor's latest call
    xt,             \* what abendHandlerInstall patches: putc1, the exception
                    \* table, the debug vector, EPC2, EPC3, EXCSAVE2, DEPC, with
                    \* the interrupt level and the build's
                    \* ABENDINFO_REPLACE_ALL_DEFAULT_EXC_HANDLERS
    sio,            \* what the latest report printed to its Print sink
    boots,          \* number of resets so far
    faults,         \* number of faults so far
    net             \* the network monitor: netmon, p_ebCxt and its latest call

vars == <<phase, abendInfo, resetAbendInfo, resetInfo, rst_info, hw, excsave1,
          putc2, umm, call, xt, sio, boots, faults, net>>

----------------------------------------------------------------------------
(* Bounds of the model.                                                     *)

\* sizeof(abendInfo.gasp): the build-time ABENDINFO_GASP_SIZE (64 by default),
\* scaled down.  Padding before crc, which a size that is no multiple of 4
\* adds, is left out of the model.
ABENDINFO_GASP_SIZE == 4
\* resets per behaviour
MaxBoots == 1
\* faults per behaviour
MaxFaults == 1
\* failed pbuf_alloc calls the network monitor counts
MaxPbufErr == 1
\* minutes of millis() the network monitor is followed for
MaxNetMinutes == 24

----------------------------------------------------------------------------
(* Program constants.                                                       *)

REASON_DEFAULT_RST      == 0
REASON_WDT_RST          == 1
REASON_EXCEPTION_RST    == 2
REASON_SOFT_WDT_RST     == 3
REASON_SOFT_RESTART     == 4
REASON_DEEP_SLEEP_AWAKE == 5
REASON_EXT_SYS_RST      == 6
REASON_SDK_PANIC            == 101
REASON_USER_STACK_SMASH     == 253
REASON_USER_SWEXCEPTION_RST == 254

EXCCAUSE_ILLEGAL          == 0
EXCCAUSE_DIVIDE_BY_ZERO   == 6
EXCCAUSE_INSTR_PROHIBITED == 20
EXCCAUSE_LOAD_PROHIBITED  == 28

\* 0x4000dce5: the `ill` of the Boot ROM's __divsi3
divide_by_0_exception == 1073798373
\* 0x40000000 and 0x40200000 + 0x100000: the instruction address space
XCHAL_INSTRAM0_VADDR == 1073741824
InstrSpaceEnd        == 1076887552

\* A variant that takes the end of the range for a code address.
is_pc_valid_Inclusive(pc) == pc >= XCHAL_INSTRAM0_VADDR /\ pc <= InstrSpaceEnd

is_pc_valid(pc) == pc >= XCHAL_INSTRAM0_VADDR /\ pc < InstrSpaceEnd

----------------------------------------------------------------------------
(* struct AbendInfo.                                                        *)

Byte == 0..255
\* gasp[i] of the code is gasp[i + 1] here
ZeroGasp == [i \in 1..ABENDINFO_GASP_SIZE |-> 0]
ZeroCrc  == <<0, 0, 0, 0>>

ZeroAbendInfo ==
    [uptime |-> 0, reason |-> 0, exccause |-> 0, oom |-> 0,
     heap |-> 0, heap_min |-> 0, low_count |-> 0, last |-> 0,
     epc1 |-> 0, intlevel |-> 0, idx |-> 0, gasp |-> ZeroGasp,
     crc |-> ZeroCrc]

\* the bytes of a 32 bit and of a 64 bit little-endian integer
Bytes32(v) ==
    << v % 256, (v \div 256) % 256, (v \div 65536) % 256, (v \div 16777216) % 256 >>
Bytes64(v) == Bytes32(v) \o <<0, 0, 0, 0>>

\* the offsetof(struct AbendInfo, crc) bytes of the record, in field order
RecordBytes(info) ==
    Bytes64(info.uptime) \o Bytes32(info.reason) \o Bytes32(info.exccause)
    \o Bytes32(info.oom) \o Bytes32(info.heap) \o Bytes32(info.heap_min)
    \o Bytes32(info.low_count) \o Bytes32(info.last) \o Bytes32(info.epc1)
    \o Bytes32(info.intlevel) \o Bytes32(info.idx) \o info.gasp

----------------------------------------------------------------------------
(* crc32() of the ESP8266 Arduino core: most significant bit first,         *)
(* polynomial 0x04C11DB7, start value 0xFFFFFFFF, no final inversion.       *)

RECURSIVE XorBits(_, _, _)
XorBits(a, b, n) ==
    IF n = 0 THEN 0
    ELSE (((a % 2) + (b % 2)) % 2) + (2 * XorBits(a \div 2, b \div 2, n - 1))

\* exclusive or of two bytes, tabulated from that of their halves
XorNibble == [a \in 0..15 |-> [b \in 0..15 |-> XorBits(a, b, 4)]]
XorTable ==
    [a \in Byte |-> [b \in Byte |->
        (XorNibble[a \div 16][b \div 16] * 16) + XorNibble[a % 16][b % 16]]]
Xor8(a, b) == XorTable[a][b]

\* the register shifted left by one bit, and the polynomial added to it
CrcShl1(c) ==
    << ((c[1] * 2) % 256) + (c[2] \div 128), ((c[2] * 2) % 256) + (c[3] \div 128),
       ((c[3] * 2) % 256) + (c[4] \div 128), (c[4] * 2) % 256 >>
CrcXorPoly(c) == << Xor8(c[1], 4), Xor8(c[2], 193), Xor8(c[3], 29), Xor8(c[4], 183) >>

\* k bit steps on a register whose next input bits are already added in
RECURSIVE CrcBits(_, _)
CrcBits(c, k) ==
    IF k = 0 THEN c
    ELSE CrcBits(IF c[1] >= 128 THEN CrcXorPoly(CrcShl1(c)) ELSE CrcShl1(c), k - 1)

\* the eight bit steps of one input byte, tabulated by (top byte XOR input)
CrcTable == [i \in Byte |-> CrcBits(<<i, 0, 0, 0>>, 8)]

CrcByte(c, b) ==
    LET t == CrcTable[Xor8(c[1], b)]
    IN  << Xor8(c[2], t[1]), Xor8(c[3], t[2]), Xor8(c[4], t[3]), t[4] >>

\* A variant that stops one byte before the end of the range.
RECURSIVE CrcFrom_Short(_, _, _)
CrcFrom_Short(c, data, i) ==
    IF i >= Len(data)
    THEN c
    ELSE LET n == CrcByte(c, data[i])
         IN  IF n[1] >= 0 THEN CrcFrom_Short(n, data, i + 1) ELSE n

RECURSIVE CrcFrom(_, _, _)
CrcFrom(c, data, i) ==
    IF i > Len(data) THEN c
    ELSE LET n == CrcByte(c, data[i])
         IN  IF n[1] >= 0 THEN CrcFrom(n, data, i + 1) ELSE n

crc32(data) == CrcFrom(<<255, 255, 255, 255>>, data, 1)

\* abendInfo.crc == crc32(&abendInfo, offsetof(struct AbendInfo, crc))
abendOK(info) == info.crc = crc32(RecordBytes(info))

----------------------------------------------------------------------------
(* The last gasp buffer and the print interceptor.                          *)

CR == 13
LF == 10

\* static void _gasp_putc(char c)
\* A variant whose capacity test is one too large.
_gasp_putc_OffByOne(info, c) ==
    IF ABENDINFO_GASP_SIZE - 1 <= info.idx
    THEN info
    ELSE IF c # CR /\ c # LF
         THEN [info EXCEPT !.gasp[info.idx + 1] = c,
                           !.gasp[info.idx + 2] = 0,
                           !.idx = info.idx + 1]
         ELSE info

_gasp_putc(info, c) ==
    IF ABENDINFO_GASP_SIZE - 2 <= info.idx THEN info
    ELSE IF c # CR /\ c # LF
         THEN [info EXCEPT !.gasp[info.idx + 1] = c,
                           !.gasp[info.idx + 2] = 0,
                           !.idx = info.idx + 1]
         ELSE info

\* The Boot ROM's ets_printf (0x400024cc) hands every character of the
\* formatted message to the installed hooks; putc2 is the one the handler uses.
RECURSIVE rom_ets_printf(_, _, _, _)
rom_ets_printf(info, hook, msg, i) ==
    IF i > Len(msg) \/ hook # "gasp" THEN info
    ELSE rom_ets_printf(_gasp_putc(info, msg[i]), hook, msg, i + 1)

\* Instruction memory around the return addresses of the model: the firmware
\* image holds `loop: j loop` (06 FF FF) at every byte alignment, and
\* instructions that differ from it in one byte.
IRAM_BASE  == 1074790400
IROM_BASE  == 1075838976
IramImage ==
    << 6, 255, 255, 0,      0, 6, 255, 255,     0, 0, 6, 255,
       255, 0, 0, 6,        255, 255, 0, 0,     6, 255, 127, 0,
       7, 255, 255, 0,      6, 254, 255, 0,     0, 0, 0, 0 >>
IromImage == << 6, 255, 255, 0,  134, 255, 255, 0,  0, 0, 0, 0 >>

IMemByte(a) ==
    IF a >= IRAM_BASE /\ a < IRAM_BASE + Len(IramImage) THEN IramImage[a - IRAM_BASE + 1]
    ELSE IF a >= IROM_BASE /\ a < IROM_BASE + Len(IromImage) THEN IromImage[a - IROM_BASE + 1]
    ELSE 0

\* l32i: the aligned little-endian word at a, as its four bytes
l32i(a) == << IMemByte(a), IMemByte(a + 1), IMemByte(a + 2), IMemByte(a + 3) >>

\* movi a3, ~3; and; ssa8l a0; l32i a4, a3, 4; l32i a3, a3, 0; src a3, a4, a3;
\* and a3, a3, 0x00ffffff: the three bytes at a0, as a number
\* A variant that reads the aligned word and ignores the byte offset.
InstrAtReturn_Unaligned(a0) ==
    LET w == l32i(a0 - (a0 % 4))
    IN  w[1] + (256 * w[2]) + (65536 * w[3])

InstrAtReturn(a0) ==
    LET a3  == a0 - (a0 % 4)
        sar == a0 % 4
        w   == l32i(a3) \o l32i(a3 + 4)
    IN  w[sar + 1] + (256 * w[sar + 2]) + (65536 * w[sar + 3])

\* 0x00ffff06
INFINITE_LOOP == 16776966

\* the `ill` at label ets_printf_sdk_panic, somewhere in IRAM
ets_printf_sdk_panic == IRAM_BASE + 768

Illegal(pc) == [reason |-> REASON_EXCEPTION_RST, exccause |-> EXCCAUSE_ILLEGAL,
                epc1 |-> pc, epc2 |-> 0]

NoCall == [a0 |-> 0, ps |-> 0]

\* bnez a12, ets_printf_exit; ...; bne a3, a4, ets_printf_exit: a12 is the
\* live record's epc1 as it was on entry
\* A variant without the test of the address already recorded.
LoopDetected_Always(a12, a0) == InstrAtReturn(a0) = INFINITE_LOOP

LoopDetected(a12, a0) == a12 = 0 /\ InstrAtReturn(a0) = INFINITE_LOOP

\* A variant that clears the index at every call.
PrintStart_Always(info) == [info EXCEPT !.idx = 0]

\* A variant that never clears the index of the last-gasp text.
PrintStart_NoReset(info) == info

\* l32i a12, a0, ABENDINFO_EPC1; bnez a12, ets_printf_continue; s32i a12, a0,
\* ABENDINFO_IDX: while no loop address is recorded, the index is cleared
PrintStart(info) == IF info.epc1 # 0 THEN info ELSE [info EXCEPT !.idx = 0]

\* A variant that stores the whole of PS as the interrupt level.
ets_printf_WholePs(msg, a0, ps) ==
    /\ phase \in {"run", "fault", "crashed"}
    /\ call' = [a0 |-> a0, ps |-> ps]
    /\ LET a12    == abendInfo.epc1
           start  == PrintStart(abendInfo)
           after  == rom_ets_printf(start, putc2, msg, 1)
       IN  IF LoopDetected(a12, a0)
           THEN /\ abendInfo' = [after EXCEPT !.epc1 = a0, !.intlevel = ps]
                /\ putc2' = "null"
                /\ phase' = "fault"
                /\ rst_info' = Illegal(ets_printf_sdk_panic)
                /\ hw' = Illegal(ets_printf_sdk_panic)
                /\ excsave1' = ets_printf_sdk_panic
                /\ UNCHANGED <<net, resetAbendInfo, resetInfo, umm, xt, sio, boots, faults>>
           ELSE /\ abendInfo' = after
                /\ UNCHANGED <<net, phase, resetAbendInfo, resetInfo, rst_info, hw,
                               excsave1, putc2, umm, xt, sio, boots, faults>>

\* The replacement ets_printf: msg is the formatted text, a0 the return
\* address, ps the processor state register when the ROM print has returned.
ets_printf(msg, a0, ps) ==
    /\ phase \in {"run", "fault", "crashed"}
    /\ call' = [a0 |-> a0, ps |-> ps]
    /\ LET a12    == abendInfo.epc1
           start  == PrintStart(abendInfo)
           after  == rom_ets_printf(start, putc2, msg, 1)
       IN  IF LoopDetected(a12, a0)
           THEN /\ abendInfo' = [after EXCEPT !.epc1 = a0, !.intlevel = ps % 16]
                /\ putc2' = "null"
                /\ phase' = "fault"
                /\ rst_info' = Illegal(ets_printf_sdk_panic)
                /\ hw' = Illegal(ets_printf_sdk_panic)
                /\ excsave1' = ets_printf_sdk_panic
                /\ UNCHANGED <<net, resetAbendInfo, resetInfo, umm, xt, sio, boots, faults>>
           ELSE /\ abendInfo' = after
                /\ UNCHANGED <<net, phase, resetAbendInfo, resetInfo, rst_info, hw,
                               excsave1, putc2, umm, xt, sio, boots, faults>>

----------------------------------------------------------------------------
(* The crash callback.                                                      *)

ZeroRstInfo == [reason |-> REASON_DEFAULT_RST, exccause |-> 0, epc1 |-> 0, epc2 |-> 0]

\* The classification of custom_crash_callback: rst is *rst_info on entry,
\* info the live record on entry, pc what rsr.excsave1 reads; the value is
\* *rst_info afterwards.
\* A variant that corrects the cause of a divide-by-zero and keeps the
\* address of the ROM's trap.
Classify_KeepTrap(rst, info, pc) ==
    IF rst.reason = REASON_EXCEPTION_RST
    THEN IF EXCCAUSE_INSTR_PROHIBITED = rst.exccause /\ ~is_pc_valid(rst.epc1)
         THEN [rst EXCEPT !.epc1 = pc]
         ELSE IF rst.epc2 # 0
         THEN rst
         ELSE IF EXCCAUSE_ILLEGAL = rst.exccause
         THEN IF info.epc1 # 0
              THEN [rst EXCEPT !.epc1 = info.epc1, !.reason = REASON_SDK_PANIC]
              ELSE IF divide_by_0_exception = rst.epc1
              THEN [rst EXCEPT !.exccause = EXCCAUSE_DIVIDE_BY_ZERO]
              ELSE rst
         ELSE rst
    ELSE rst

\* A variant that looks for the ROM's trap before the recorded loop address.
Classify_DivFirst(rst, info, pc) ==
    IF rst.reason = REASON_EXCEPTION_RST
    THEN IF EXCCAUSE_INSTR_PROHIBITED = rst.exccause /\ ~is_pc_valid(rst.epc1)
         THEN [rst EXCEPT !.epc1 = pc]
         ELSE IF rst.epc2 # 0
         THEN rst
         ELSE IF EXCCAUSE_ILLEGAL = rst.exccause
         THEN IF divide_by_0_exception = rst.epc1
              THEN [rst EXCEPT !.exccause = EXCCAUSE_DIVIDE_BY_ZERO, !.epc1 = pc]
              ELSE IF info.epc1 # 0
              THEN [rst EXCEPT !.epc1 = info.epc1, !.reason = REASON_SDK_PANIC]
              ELSE rst
         ELSE rst
    ELSE rst

\* A variant without the test of the breakpoint register.
Classify_NoBreakpoint(rst, info, pc) ==
    IF rst.reason = REASON_EXCEPTION_RST
    THEN IF EXCCAUSE_INSTR_PROHIBITED = rst.exccause /\ ~is_pc_valid(rst.epc1)
         THEN [rst EXCEPT !.epc1 = pc]
         ELSE IF EXCCAUSE_ILLEGAL = rst.exccause
         THEN IF info.epc1 # 0
              THEN [rst EXCEPT !.epc1 = info.epc1, !.reason = REASON_SDK_PANIC]
              ELSE IF divide_by_0_exception = rst.epc1
              THEN [rst EXCEPT !.exccause = EXCCAUSE_DIVIDE_BY_ZERO, !.epc1 = pc]
              ELSE rst
         ELSE rst
    ELSE rst

Classify(rst, info, pc) ==
    IF rst.reason = REASON_EXCEPTION_RST
    THEN IF EXCCAUSE_INSTR_PROHIBITED = rst.exccause /\ ~is_pc_valid(rst.epc1)
         THEN [rst EXCEPT !.epc1 = pc]
         ELSE IF rst.epc2 # 0
         THEN rst
         ELSE IF EXCCAUSE_ILLEGAL = rst.exccause
         THEN IF info.epc1 # 0
              THEN [rst EXCEPT !.epc1 = info.epc1, !.reason = REASON_SDK_PANIC]
              ELSE IF divide_by_0_exception = rst.epc1
              THEN [rst EXCEPT !.exccause = EXCCAUSE_DIVIDE_BY_ZERO, !.epc1 = pc]
              ELSE rst
         ELSE rst
    ELSE rst

\* static void abendUpdateHeapStats(void)
abendUpdateHeapStats(info, alloc) ==
    [info EXCEPT !.oom = alloc.oom, !.heap = alloc.free, !.heap_min = alloc.free_min]

\* A variant that leaves the last-gasp buffer as the prints filled it.
Archive_KeepGasp(info, rst, seconds, alloc) ==
    LET stamped == [info EXCEPT !.uptime = seconds]
        heaped  == abendUpdateHeapStats(stamped, alloc)
        filled  == [heaped EXCEPT !.epc1 = rst.epc1, !.reason = rst.reason,
                                  !.exccause = rst.exccause]
    IN  [filled EXCEPT !.crc = crc32(RecordBytes(filled))]

\* A variant that computes the checksum before the heap statistics and the
\* classified values are stored.
Archive_SealEarly(info, rst, seconds, alloc) ==
    LET stamped == [info EXCEPT !.uptime = seconds]
        gasped  == IF 0 = stamped.epc1 \/ 0 = stamped.idx
                   THEN [stamped EXCEPT !.gasp[1] = 0]
                   ELSE stamped
        sealed  == [gasped EXCEPT !.crc = crc32(RecordBytes(gasped))]
        heaped  == abendUpdateHeapStats(sealed, alloc)
    IN  [heaped EXCEPT !.epc1 = rst.epc1, !.reason = rst.reason,
                       !.exccause = rst.exccause]

\* The live record when custom_crash_callback returns: seconds is
\* micros64() / 1000000, rst the classified *rst_info.
Archive(info, rst, seconds, alloc) ==
    LET stamped == [info EXCEPT !.uptime = seconds]
        gasped  == IF 0 = stamped.epc1 \/ 0 = stamped.idx
                   THEN [stamped EXCEPT !.gasp[1] = 0]
                   ELSE stamped
        heaped  == abendUpdateHeapStats(gasped, alloc)
        filled  == [heaped EXCEPT !.epc1 = rst.epc1, !.reason = rst.reason,
                                  !.exccause = rst.exccause]
    IN  [filled EXCEPT !.crc = crc32(RecordBytes(filled))]

custom_crash_callback(seconds) ==
    /\ phase = "fault"
    /\ LET rst == Classify(rst_info, abendInfo, excsave1)
       IN  /\ rst_info' = rst
           /\ abendInfo' = Archive(abendInfo, rst, seconds, umm)
    /\ phase' = "crashed"
    /\ UNCHANGED <<net, resetAbendInfo, resetInfo, hw, excsave1, putc2, umm, call, xt, sio,
                   boots, faults>>

----------------------------------------------------------------------------
(* abendHandlerInstall.                                                     *)

\* which branch of the promotion runs: "soft" (software restart or a
\* software-raised reason tag), "hard" (watchdog or exception reset), "none"
\* A variant whose second test leaves the checksum out.
PromotionBranch_Unchecked(info, reason) ==
    LET ok == abendOK(info)
    IN  IF ok /\ (REASON_SOFT_RESTART = reason \/ 100 < info.reason)
        THEN "soft"
        ELSE IF \/ REASON_SOFT_WDT_RST = reason
                \/ REASON_EXCEPTION_RST = reason
                \/ REASON_WDT_RST = reason
        THEN "hard"
        ELSE "none"

\* A variant that copies the record on the first test only.
Promoted_SoftOnly(info, branch) == IF branch = "soft" THEN info ELSE ZeroAbendInfo

\* A variant whose first test leaves the checksum out.
PromotionBranch_SoftUnchecked(info, reason) ==
    LET ok == abendOK(info)
    IN  IF REASON_SOFT_RESTART = reason \/ (ok /\ 100 < info.reason)
        THEN "soft"
        ELSE IF ok /\ (REASON_SOFT_WDT_RST = reason
                       \/ REASON_EXCEPTION_RST = reason
                       \/ REASON_WDT_RST = reason)
        THEN "hard"
        ELSE "none"

\* A variant whose first test knows the software restart only.
PromotionBranch_NoTag(info, reason) ==
    LET ok == abendOK(info)
    IN  IF ok /\ REASON_SOFT_RESTART = reason
        THEN "soft"
        ELSE IF ok /\ (REASON_SOFT_WDT_RST = reason
                       \/ REASON_EXCEPTION_RST = reason
                       \/ REASON_WDT_RST = reason)
        THEN "hard"
        ELSE "none"

\* A variant whose second test knows the watchdog resets only.
PromotionBranch_WatchdogOnly(info, reason) ==
    LET ok == abendOK(info)
    IN  IF ok /\ (REASON_SOFT_RESTART = reason \/ 100 < info.reason)
        THEN "soft"
        ELSE IF ok /\ (REASON_SOFT_WDT_RST = reason \/ REASON_WDT_RST = reason)
        THEN "hard"
        ELSE "none"

PromotionBranch(info, reason) ==
    LET ok == abendOK(info)
    IN  IF ok /\ (REASON_SOFT_RESTART = reason \/ 100 < info.reason)
        THEN "soft"
        ELSE IF ok /\ (REASON_SOFT_WDT_RST = reason
                       \/ REASON_EXCEPTION_RST = reason
                       \/ REASON_WDT_RST = reason)
        THEN "hard"
        ELSE "none"

\* A variant that keeps the uptime of a record it does not promote.
Promoted_KeepUptime(info, branch) ==
    IF branch = "none" THEN [ZeroAbendInfo EXCEPT !.uptime = info.uptime] ELSE info

\* resetAbendInfo when abendHandlerInstall returns
Promoted(info, branch) == IF branch = "none" THEN ZeroAbendInfo ELSE info

\* A variant that patches without the test of the promoted address.
Patched_NoAddressTest(rinfo, promoted, branch, update) ==
    IF branch = "hard" /\ update
    THEN [rinfo EXCEPT !.epc1 = promoted.epc1, !.reason = promoted.reason,
                       !.exccause = promoted.exccause]
    ELSE rinfo

\* resetInfo when abendHandlerInstall returns
Patched(rinfo, promoted, branch, update) ==
    IF branch = "hard" /\ promoted.epc1 # 0 /\ update
    THEN [rinfo EXCEPT !.epc1 = promoted.epc1, !.reason = promoted.reason,
                       !.exccause = promoted.exccause]
    ELSE rinfo

\* constexpr size_t max_num_exccause_values = 64u: the number of exception causes
max_num_exccause_values == 64

\* A variant that replaces the handler whatever the entry holds.
replace_exception_handler_on_match_Always(table, cause, match, replacement) ==
    [table EXCEPT ![cause] = replacement]

\* static void replace_exception_handler_on_match(cause, match, replacement)
replace_exception_handler_on_match(table, cause, match, replacement) ==
    IF table[cause] = match \/ match = "NULL"
    THEN [table EXCEPT ![cause] = replacement]
    ELSE table

\* static void install_unhandled_exception_handler(void): the loop from cause i
RECURSIVE install_unhandled_exception_handler(_, _)
install_unhandled_exception_handler(table, i) ==
    IF i >= max_num_exccause_values
    THEN table
    ELSE LET next == replace_exception_handler_on_match(
                         table, i, "ROM_xtos_unhandled_exception",
                         "_xtos_c_handler_table[0]")
         IN  IF next[i] # "" THEN install_unhandled_exception_handler(next, i + 1)
             ELSE next

\* A variant that sets the entry of cause 20 only if it is the ROM's default,
\* in either build.
InstallTrace_OnMatchOnly(m, hook) ==
    LET s0 == [xt |-> m, putc2 |-> hook]
        s1 == [s0 EXCEPT !.xt.intlevel = 15]
        s2 == [s1 EXCEPT !.xt.putc1 = IF IROM_BASE <= s1.xt.putc1 THEN 0 ELSE s1.xt.putc1]
        s3 == [s2 EXCEPT !.putc2 = "gasp"]
        s4 == [s3 EXCEPT !.xt.exc_table =
                  IF s3.xt.replace_all
                  THEN install_unhandled_exception_handler(s3.xt.exc_table, 0)
                  ELSE replace_exception_handler_on_match(
                           s3.xt.exc_table, EXCCAUSE_INSTR_PROHIBITED,
                           "ROM_xtos_unhandled_exception", "_xtos_c_handler_table[0]")]
        s5 == [s4 EXCEPT !.xt.debug_vector = "new_debug_vector"]
        s6 == [s5 EXCEPT !.xt.epc2 = 0, !.xt.epc3 = 0, !.xt.excsave2 = 0, !.xt.depc = 0]
        s7 == [s6 EXCEPT !.xt.intlevel = m.intlevel]
    IN  <<s0, s1, s2, s3, s4, s5, s6, s7>>

\* A variant that restores the interrupt level before the registers of the
\* debug exception are zeroed.
InstallTrace_EarlyRestore(m, hook) ==
    LET s0 == [xt |-> m, putc2 |-> hook]
        s1 == [s0 EXCEPT !.xt.intlevel = 15]
        s2 == [s1 EXCEPT !.xt.putc1 = IF IROM_BASE <= s1.xt.putc1 THEN 0 ELSE s1.xt.putc1]
        s3 == [s2 EXCEPT !.putc2 = "gasp"]
        s4 == [s3 EXCEPT !.xt.exc_table =
                  IF s3.xt.replace_all
                  THEN install_unhandled_exception_handler(s3.xt.exc_table, 0)
                  ELSE [s3.xt.exc_table EXCEPT ![EXCCAUSE_INSTR_PROHIBITED] =
                                                   "_xtos_c_handler_table[0]"]]
        s5 == [s4 EXCEPT !.xt.debug_vector = "new_debug_vector"]
        s6 == [s5 EXCEPT !.xt.intlevel = m.intlevel]
        s7 == [s6 EXCEPT !.xt.epc2 = 0, !.xt.epc3 = 0, !.xt.excsave2 = 0, !.xt.depc = 0]
    IN  <<s0, s1, s2, s3, s4, s5, s6, s7>>

\* The block under "if (! gdb_present())", write by write: m is what the
\* block patches and hook the putc2 hook on entry.  xt_rsil(15) raises the
\* interrupt level; putc1 is replaced by NULL when it points into flash;
\* putc2 becomes _gasp_putc; the table entries still at the ROM's default are
\* replaced (without ABENDINFO_REPLACE_ALL_DEFAULT_EXC_HANDLERS, the entry of
\* cause 20 is set); the vector stub is copied; the registers of the debug
\* exception are zeroed; xt_wsr_ps(save_ps) restores the interrupt level.
InstallTrace(m, hook) ==
    LET s0 == [xt |-> m, putc2 |-> hook]
        s1 == [s0 EXCEPT !.xt.intlevel = 15]
        s2 == [s1 EXCEPT !.xt.putc1 = IF IROM_BASE <= s1.xt.putc1 THEN 0 ELSE s1.xt.putc1]
        s3 == [s2 EXCEPT !.putc2 = "gasp"]
        s4 == [s3 EXCEPT !.xt.exc_table =
                  IF s3.xt.replace_all
                  THEN install_unhandled_exception_handler(s3.xt.exc_table, 0)
                  ELSE [s3.xt.exc_table EXCEPT ![EXCCAUSE_INSTR_PROHIBITED] =
                                                   "_xtos_c_handler_table[0]"]]
        s5 == [s4 EXCEPT !.xt.debug_vector = "new_debug_vector"]
        s6 == [s5 EXCEPT !.xt.epc2 = 0, !.xt.epc3 = 0, !.xt.excsave2 = 0, !.xt.depc = 0]
        s7 == [s6 EXCEPT !.xt.intlevel = m.intlevel]
    IN  <<s0, s1, s2, s3, s4, s5, s6, s7>>

\* What the block under "if (! gdb_present())" leaves besides putc2.
InstallPatches(m) == InstallTrace(m, "null")[8].xt

\* A variant that patches whether or not a debugger is attached.
InstallBlock_IgnoreGdb(m, hook, gdb) == [xt |-> InstallPatches(m), putc2 |-> "gasp"]

\* if (! gdb_present()) { ... }: the patched registers and tables, and the
\* putc2 hook
InstallBlock(m, hook, gdb) ==
    IF gdb THEN [xt |-> m, putc2 |-> hook]
           ELSE [xt |-> InstallPatches(m), putc2 |-> "gasp"]

\* A variant that clears only the address and the text of the live record.
ClearedLive_AddressOnly(info, now) ==
    [info EXCEPT !.epc1 = 0, !.idx = 0, !.gasp = ZeroGasp, !.last = now]

\* A variant whose memset stops before the checksum.
ClearedLive_KeepCrc(info, now) == [ZeroAbendInfo EXCEPT !.last = now, !.crc = info.crc]

\* memset(&abendInfo, 0, sizeof(struct AbendInfo)); abendInfo.last = millis();
ClearedLive(info, now) == [ZeroAbendInfo EXCEPT !.last = now]

\* extern "C" void abendHandlerInstall(bool update), what it does whenever
\* it is called: gdb is gdb_present(), now is millis()
InstallPass(update, gdb, now) ==
    /\ putc2' = InstallBlock(xt, putc2, gdb).putc2
    /\ xt' = InstallBlock(xt, putc2, gdb).xt
    /\ LET branch == PromotionBranch(abendInfo, resetInfo.reason)
       IN  /\ resetAbendInfo' = Promoted(abendInfo, branch)
           /\ resetInfo' = Patched(resetInfo, Promoted(abendInfo, branch), branch, update)
    /\ abendInfo' = ClearedLive(abendInfo, now)
    /\ phase' = "run"
    /\ call' = NoCall
    /\ UNCHANGED <<net, rst_info, hw, excsave1, umm, sio, boots, faults>>

\* the call of abendHandlerInstall at the start of a boot (preinit() or
\* setup())
abendHandlerInstall(update, gdb, now) == phase = "boot" /\ InstallPass(update, gdb, now)

\* a further call of abendHandlerInstall in the same boot
abendHandlerInstallAgain(update, gdb, now) == phase = "run" /\ InstallPass(update, gdb, now)

----------------------------------------------------------------------------
(* The reports and the heap monitor.                                        *)

\* a line printed to the Print sink: its format and the values formatted
Line(text, args) == [text |-> text, args |-> args]

\* void abendInfoHeapReport(Print& sio, const char *qualifier, AbendInfo& info),
\* the lines it prints; qualifier is 1 for "Restart " and 0 for ""
HeapReport(qualifier, info) ==
    << Line("%sDRAM Heap Report:", <<qualifier>>),
       Line("OOM count:", <<info.oom>>),
       Line("low mark:", <<info.heap_min>>),
       Line("free at test interval:", <<info.heap>>) >>
    \o (IF info.low_count # 0 THEN <<Line("Critically Low:", <<info.low_count>>)>>
        ELSE <<>>)

\* static void printTime(Print& sio, PGM_P label, time_t time): gmtime gives
\* the day of the year and strftime("%T") the time of the day; the days are
\* printed when they are not zero
printTime(label, time) ==
    LET tm_yday == time \div 86400
        T       == time % 86400
    IN  << Line(label, IF tm_yday # 0 THEN <<tm_yday, T>> ELSE <<T>>) >>

\* 0 == memcmp_P(infinite_loop, (PGM_VOID_P)epc1, 3u)
InfiniteLoopAt(epc1) ==
    <<IMemByte(epc1), IMemByte(epc1 + 1), IMemByte(epc1 + 2)>> = <<6, 255, 255>>

\* void abendInfoReport(Print& sio, bool heap), the lines it prints: prev is
\* resetAbendInfo, info is *ESP.getResetInfoPtr(), seconds is
\* micros64() / 1000000
RestartReport(prev, info, heap, seconds) ==
    << Line("Restart Report:", <<>>) >>
    \o (IF prev.uptime # 0
        THEN printTime("Uptime: ", prev.uptime) \o printTime("Time since restart: ", seconds)
        ELSE <<>>)
    \o << Line("ESP.getResetInfo()", <<info.reason, info.exccause, info.epc1, info.epc2>>) >>
    \o (IF info.epc2 # 0
        THEN <<Line("Hit breakpoint instruction @0x%08x", <<info.epc2>>)>>
        ELSE IF REASON_SDK_PANIC = prev.reason
        THEN <<Line("SDK Panic: '%s' @0x%08x, INTLEVEL=%u",
                    <<prev.epc1, prev.intlevel>> \o prev.gasp)>>
        ELSE IF REASON_USER_STACK_SMASH = prev.reason
        THEN <<Line("User stack smashed", <<>>)>>
        ELSE IF REASON_USER_SWEXCEPTION_RST = prev.reason
        THEN <<Line("User Software Exception", <<>>)>>
        ELSE IF is_pc_valid(info.epc1) /\ InfiniteLoopAt(info.epc1)
        THEN <<Line("Deliberate Infinite Loop @0x%08x", <<info.epc1>>)>>
        ELSE IF EXCCAUSE_INSTR_PROHIBITED = info.exccause
        THEN <<Line("Possible source of Exception 20 @0x%08x", <<info.epc1>>)>>
        ELSE <<>>)
    \o (IF heap THEN HeapReport(1, prev) ELSE <<>>)

abendInfoReport(heap, seconds) ==
    /\ phase = "run"
    /\ sio' = RestartReport(resetAbendInfo, resetInfo, heap, seconds)
    /\ UNCHANGED <<net, phase, abendInfo, resetAbendInfo, resetInfo, rst_info, hw, excsave1,
                   putc2, umm, call, xt, boots, faults>>

\* abendInfoHeapReport(sio) of a sketch, with the default arguments: no
\* qualifier and the live record
abendInfoHeapReport ==
    /\ phase = "run"
    /\ sio' = HeapReport(0, abendInfo)
    /\ UNCHANGED <<net, phase, abendInfo, resetAbendInfo, resetInfo, rst_info, hw, excsave1,
                   putc2, umm, call, xt, boots, faults>>

kCheckIntervalMs   == 1000
kResetTriggerCount == 60
kHeapLowTrigger    == 4096

\* the consecutive low samples the model follows
MaxLowCount == 2

\* A variant that samples as soon as the interval has passed.
CheckDue_AtInterval(now, last) ==
    IF now >= last THEN now - last >= kCheckIntervalMs ELSE TRUE

\* now - abendInfo.last > kCheckIntervalMs in uint32_t.  A value of millis()
\* is held as the 32-bit two's complement integer with the same bits, so
\* that the times shortly before the wrap of millis() are the negative ones;
\* when now is below last the difference is 2^32 - (last - now), which is
\* above the interval for the times of the model
CheckDue(now, last) == IF now >= last THEN now - last > kCheckIntervalMs ELSE TRUE

\* A variant that also stamps the time of the sample as the uptime.
HeapChecked_Stamped(info, alloc, now) ==
    IF CheckDue(now, info.last)
    THEN LET sampled == abendUpdateHeapStats(info, alloc)
         IN  [sampled EXCEPT !.low_count = IF sampled.heap < kHeapLowTrigger
                                           THEN sampled.low_count + 1 ELSE 0,
                             !.last = now, !.uptime = now]
    ELSE info

\* the live record when abendIsHeapOK returns
HeapChecked(info, alloc, now) ==
    IF CheckDue(now, info.last)
    THEN LET sampled == abendUpdateHeapStats(info, alloc)
         IN  [sampled EXCEPT !.low_count = IF sampled.heap < kHeapLowTrigger
                                           THEN sampled.low_count + 1 ELSE 0,
                             !.last = now]
    ELSE info

\* A variant that samples the heap into the promoted record.
abendIsHeapOK_Promoted(now) ==
    /\ phase = "run"
    /\ resetAbendInfo' = HeapChecked(resetAbendInfo, umm, now)
    /\ UNCHANGED <<net, phase, abendInfo, resetInfo, rst_info, hw, excsave1,
                   putc2, umm, call, xt, sio, boots, faults>>

\* bool abendIsHeapOK(void): now is millis()
abendIsHeapOK(now) ==
    /\ phase = "run"
    /\ abendInfo' = HeapChecked(abendInfo, umm, now)
    /\ UNCHANGED <<net, phase, resetAbendInfo, resetInfo, rst_info, hw, excsave1,
                   putc2, umm, call, xt, sio, boots, faults>>

\* what abendIsHeapOK returns with the live record info
HeapOK(info) == info.low_count < kResetTriggerCount

----------------------------------------------------------------------------
(* The platform: faults, resets and the memory a power-on leaves.           *)

CODE_ADDR   == IRAM_BASE + 4096      \* 0x40101000: an instruction of the sketch
CALLER_ADDR == IROM_BASE + 266240    \* 0x40241000: a return address in flash
BP_ADDR     == CODE_ADDR + 16        \* 0x40101010: a break instruction

\* The exception table as the core leaves it before setup(): the ROM's
\* default everywhere but in slot 3, where the core has its own handler.
BootExcTable ==
    [i \in 0..(max_num_exccause_values - 1) |->
        IF i = 3 THEN "core_handler" ELSE "ROM_xtos_unhandled_exception"]

\* The patched places after a reset: putc1 is uart.cpp's function in flash,
\* the registers hold what the boot left in them.
BootXt ==
    [replace_all |-> TRUE, intlevel |-> 0, putc1 |-> CALLER_ADDR + 64, exc_table |-> BootExcTable, debug_vector |-> "rom",
     epc2 |-> BP_ADDR, epc3 |-> BP_ADDR, excsave2 |-> CALLER_ADDR, depc |-> CODE_ADDR]

InitialUmm == [oom |-> 0, free |-> 40000, free_min |-> 30000]
LowUmm     == [oom |-> 2, free |-> 3000, free_min |-> 1000]

\* the sketch allocates and frees: the counters of the allocator change
umm_malloc(alloc) ==
    /\ phase = "run"
    /\ umm' = alloc
    /\ umm' # umm
    /\ UNCHANGED <<net, phase, abendInfo, resetAbendInfo, resetInfo, rst_info, hw, excsave1,
                   putc2, call, xt, sio, boots, faults>>

----------------------------------------------------------------------------
(* The network monitor of AbendNetworkHealth.cpp.                           *)

\* lwIP's err_t, by name
ERR_OK         == "ERR_OK"
ERR_MEM        == "ERR_MEM"
ERR_TIMEOUT    == "ERR_TIMEOUT"
ERR_INPROGRESS == "ERR_INPROGRESS"
ERR_IF         == "ERR_IF"
ERR_CLSD       == "ERR_CLSD"

kNetChkInterval == 2 * 60 * 1000
kTimeoutRestart == 20 * 60 * 1000

\* The monitor and what surrounds it after a reset:
\*   netmon   the static struct NetworkMonitor, as the startup code
\*            initialises it
\*   p_ebCxt  the pointer to the WiFi library's buffer pools, "NULL" or "pools"
\*   literal  whether the code of esf_buf_alloc in this firmware holds the
\*            l32r instruction initEbCxtPtr scans for
\*   now      millis() at the latest call
\*   op       the latest call and the path it took: "boot" (none yet),
\*            "enable" and "same" (abendEnableNetworkMonitor with and without
\*            a change), "off", "early" and "check" (abendCheckNetwork
\*            disabled, before the interval elapsed, with a health check),
\*            "trap" (a health check that faulted on netmon.netif)
\*   ret      what the latest abendCheckNetwork returned
\*   started  millis() at the latest call that put the monitor in its initial
\*            state: an effective abendEnableNetworkMonitor(true) or a check
\*            that found the interface up after it was down
\*   asked    millis() at the latest abendEnableNetworkMonitor(true), whether
\*            or not it changed anything
BootNet ==
    [netmon |-> [ip |-> 0, last_ok |-> 0, interval |-> 0, pbuf_err |-> 0,
                 netif |-> "NULL", rx_last_ok |-> 0, rx_cnt_last |-> 0,
                 rx_cnt_no_change |-> 0, err |-> ERR_OK, enabled |-> FALSE,
                 up |-> FALSE, restart |-> FALSE],
     p_ebCxt |-> "NULL", literal |-> TRUE, now |-> 0,
     op |-> "boot", ret |-> ERR_OK, started |-> 0, asked |-> 0]

\* initEbCxtPtr: getnL32rValue stores the literal only when it finds the l32r
initEbCxtPtr(n) == IF n.literal THEN [n EXCEPT !.p_ebCxt = "pools"] ELSE n

\* getRxBlockCnt: rxblock_cnt of the pools, 0 without the pointer
getRxBlockCnt(n, rxblock_cnt) == IF n.p_ebCxt # "NULL" THEN rxblock_cnt ELSE 0

\* The timeout test on millis() values.  The model's times are far from 2^31,
\* so the 32-bit difference is the integer difference (a stamp of
\* now - kNetChkInterval taken in the first two minutes is held as a negative
\* number, its two's-complement value).
TimedOut_AtTimeout(m, now) ==
    \/ now - m.last_ok >= kTimeoutRestart
    \/ now - m.rx_last_ok >= kTimeoutRestart
TimedOut(m, now) ==
    \/ now - m.last_ok > kTimeoutRestart
    \/ now - m.rx_last_ok > kTimeoutRestart

\* abendEnableNetworkMonitor(enable) at millis() = now, the pools' rxblock_cnt
\* being rx
NetEnabled(n, enable, now, rx) ==
    LET p == initEbCxtPtr(n)
        q == [p EXCEPT !.now = now,
                       !.asked = IF enable THEN now ELSE @]
    IN  IF p.netmon.enabled = enable
        THEN [q EXCEPT !.op = "same"]
        ELSE [q EXCEPT !.op = "enable",
                       !.started = IF enable THEN now ELSE @,
                       !.netmon = [@ EXCEPT !.interval = now - kNetChkInterval,
                                            !.enabled = enable,
                                            !.netif = "NULL",
                                            !.up = FALSE,
                                            !.last_ok = now,
                                            !.restart = FALSE,
                                            !.rx_cnt_last = getRxBlockCnt(p, rx),
                                            !.rx_cnt_no_change = 0,
                                            !.rx_last_ok = now]]

\* lines 426..433: the RX block count against the one of the last check
RxCounted(m, now, rx_cnt) ==
    IF rx_cnt = m.rx_cnt_last
    THEN [m EXCEPT !.rx_cnt_no_change = @ + 1]
    ELSE [m EXCEPT !.rx_cnt_last = rx_cnt, !.rx_cnt_no_change = 0, !.rx_last_ok = now]

\* lines 437..461: the gateway's ARP entry.  e.arp is what etharp_find_addr
\* found: "none" (idx < 0), "pending" or "stable"; e.pbuf whether pbuf_alloc
\* succeeded; e.request what etharp_request returned.
GatewayChecked(m, now, e) ==
    LET found   == IF e.arp = "stable" THEN [m EXCEPT !.last_ok = now] ELSE m
        alloc   == IF e.pbuf \/ found.err # ERR_OK THEN found
                   ELSE [found EXCEPT !.err = ERR_MEM]
        request == [m EXCEPT !.err = IF e.request = ERR_OK THEN ERR_INPROGRESS
                                     ELSE e.request]
        a == IF e.arp # "none" THEN alloc ELSE request
        b == IF a.err = ERR_MEM THEN [a EXCEPT !.pbuf_err = @ + 1] ELSE a
    IN  IF b.err = ERR_OK /\ b.rx_cnt_no_change # 0 THEN [b EXCEPT !.err = ERR_IF] ELSE b

\* lines 467..490: the interface came up; e.netif is the entry of netif_list
\* that carries the local address, "NULL" when none does
WentUp_KeepStamps(m, now, e) ==
    [m EXCEPT !.up = TRUE, !.restart = FALSE,
              !.interval = now - kNetChkInterval, !.netif = e.netif,
              !.err = ERR_OK, !.rx_cnt_last = 0, !.rx_cnt_no_change = 0]
WentUp(m, now, e) ==
    [m EXCEPT !.up = TRUE, !.last_ok = now, !.restart = FALSE,
              !.interval = now - kNetChkInterval, !.netif = e.netif,
              !.err = ERR_OK, !.rx_cnt_last = 0, !.rx_cnt_no_change = 0,
              !.rx_last_ok = now]

\* lines 494..517: the timeout test and the return value
Returned(n, m, now) ==
    IF TimedOut(m, now)
    THEN LET t == [m EXCEPT !.restart = TRUE,
                            !.err = IF @ = ERR_OK THEN ERR_TIMEOUT ELSE @]
         IN  [n EXCEPT !.netmon = t, !.ret = t.err]
    ELSE [n EXCEPT !.netmon = m, !.ret = ERR_OK]

\* abendCheckNetwork() at millis() = now in the surroundings e: e.ip is
\* WiFi.localIP(), e.rx the pools' rxblock_cnt, e.deref what the build does
\* when etharp_find_addr is handed &netmon.netif->gw of a null netmon.netif
\* (undefined behaviour: a load from page 0 raises exception 28, "trap", or
\* the call reads whatever is there and goes on, "garbage").
NetChecked(n, now, e) ==
    LET m  == n.netmon
        c  == [n EXCEPT !.now = now]
        m1 == [m EXCEPT !.interval = now, !.ip = e.ip, !.err = ERR_OK]
        rx == RxCounted(m1, now, getRxBlockCnt(n, e.rx))
    IN  IF ~m.enabled THEN [c EXCEPT !.op = "off", !.ret = ERR_OK]
        ELSE IF now - m.interval < kNetChkInterval
        THEN [c EXCEPT !.op = "early", !.ret = ERR_OK]
        ELSE IF m1.up /\ e.ip # 0 /\ m1.netif = "NULL" /\ e.deref = "trap"
        THEN [c EXCEPT !.op = "trap", !.netmon = rx]
        ELSE IF m1.up /\ e.ip # 0
        THEN Returned([c EXCEPT !.op = "check"], GatewayChecked(rx, now, e), now)
        ELSE IF m1.up
        THEN Returned([c EXCEPT !.op = "check"],
                      [m1 EXCEPT !.up = FALSE, !.err = ERR_CLSD], now)
        ELSE IF e.ip # 0
        THEN Returned([c EXCEPT !.op = "check", !.started = now], WentUp(m1, now, e), now)
        ELSE Returned([c EXCEPT !.op = "check"], m1, now)

\* bool abendIsNetworkOK(): ERR_OK == abendCheckNetwork()
NetworkOK(n) == ERR_OK = n.ret

abendEnableNetworkMonitor(enable, now, rx) ==
    /\ net.op # "trap"
    /\ now >= net.now
    /\ net' = NetEnabled(net, enable, now, rx)
    /\ UNCHANGED <<phase, abendInfo, resetAbendInfo, resetInfo, rst_info, hw, excsave1,
                   putc2, umm, call, xt, sio, boots, faults>>

\* abendCheckNetwork, and abendIsNetworkOK which is this call with the
\* result NetworkOK(net')
abendCheckNetwork(now, e) ==
    /\ net.op # "trap"
    /\ now >= net.now
    /\ NetChecked(net, now, e).netmon.pbuf_err <= MaxPbufErr
    /\ net' = NetChecked(net, now, e)
    /\ UNCHANGED <<phase, abendInfo, resetAbendInfo, resetInfo, rst_info, hw, excsave1,
                   putc2, umm, call, xt, sio, boots, faults>>

----------------------------------------------------------------------------
\* An exception, a watchdog or a software-raised exception enters Postmortem,
\* which will call the crash callback with f; a0 was ra.  It can happen before
\* abendHandlerInstall has run.
Fault(f, ra, alloc) ==
    /\ phase \in {"boot", "run"}
    /\ faults < MaxFaults
    /\ phase' = "fault"
    /\ rst_info' = f
    /\ hw' = f
    /\ excsave1' = ra
    /\ umm' = alloc
    /\ faults' = faults + 1
    /\ UNCHANGED <<net, abendInfo, resetAbendInfo, resetInfo, putc2, call, xt, sio, boots>>

\* A reset other than power-on keeps .noinit memory; the platform reports the
\* saved exception registers after a watchdog or exception reset.
WarmReset(reason) ==
    /\ phase \in {"run", "crashed"}
    /\ boots < MaxBoots
    /\ phase' = "boot"
    /\ resetInfo' = IF reason \in {REASON_WDT_RST, REASON_EXCEPTION_RST, REASON_SOFT_WDT_RST}
                    THEN [hw EXCEPT !.reason = reason]
                    ELSE [ZeroRstInfo EXCEPT !.reason = reason]
    /\ rst_info' = ZeroRstInfo
    /\ hw' = ZeroRstInfo
    /\ excsave1' = 0
    /\ putc2' = "null"
    /\ umm' = InitialUmm
    /\ call' = NoCall
    /\ xt' = [BootXt EXCEPT !.replace_all = xt.replace_all]
    /\ sio' = <<>>
    /\ boots' = boots + 1
    /\ net' = [BootNet EXCEPT !.literal = net.literal]
    /\ UNCHANGED <<abendInfo, resetAbendInfo, faults>>

\* .noinit memory after a power-on is whatever the RAM holds: nothing, the
\* remains of a record, or bytes that happen to carry their checksum
StaleRecord ==
    [ZeroAbendInfo EXCEPT !.reason = REASON_SDK_PANIC, !.epc1 = IROM_BASE,
                          !.uptime = 7, !.idx = 1, !.gasp[1] = 97]
Sealed(info) == [info EXCEPT !.crc = crc32(RecordBytes(info))]
NoInitRecords ==
    {ZeroAbendInfo, StaleRecord, Sealed(StaleRecord),
     Sealed([StaleRecord EXCEPT !.reason = REASON_EXCEPTION_RST])}

PowerOn(live, prev) ==
    /\ phase \in {"run", "crashed"}
    /\ boots < MaxBoots
    /\ phase' = "boot"
    /\ resetInfo' = ZeroRstInfo
    /\ abendInfo' = live
    /\ resetAbendInfo' = prev
    /\ rst_info' = ZeroRstInfo
    /\ hw' = ZeroRstInfo
    /\ excsave1' = 0
    /\ putc2' = "null"
    /\ umm' = InitialUmm
    /\ call' = NoCall
    /\ xt' = [BootXt EXCEPT !.replace_all = xt.replace_all]
    /\ sio' = <<>>
    /\ boots' = boots + 1
    /\ net' = [BootNet EXCEPT !.literal = net.literal]
    /\ UNCHANGED faults

\* a character the ROM prints without the interceptor (ets_putc, ets_write_char)
rom_putc(c) ==
    /\ phase \in {"run", "fault", "crashed"}
    /\ putc2 = "gasp"
    /\ abendInfo' = _gasp_putc(abendInfo, c)
    /\ abendInfo' # abendInfo
    /\ UNCHANGED <<net, phase, resetAbendInfo, resetInfo, rst_info, hw, excsave1,
                   putc2, umm, call, xt, sio, boots, faults>>

----------------------------------------------------------------------------
(* The specifications.                                                      *)

Letter == 97
Chars  == {Letter, CR, LF}
\* a message longer than the last gasp buffer holds
LongMessage == [i \in 1..ABENDINFO_GASP_SIZE |-> Letter]

\* PS: INTLEVEL in bits 0..3, EXCM in bit 4, UM in bit 5
PsValues == {32, 35, 47}
Uptimes  == {0, 5}
Millis   == {25}

Init ==
    /\ phase = "boot"
    /\ abendInfo \in NoInitRecords
    /\ resetAbendInfo = StaleRecord
    /\ resetInfo = ZeroRstInfo
    /\ rst_info = ZeroRstInfo
    /\ hw = ZeroRstInfo
    /\ excsave1 = 0
    /\ putc2 = "null"
    /\ umm = InitialUmm
    /\ call = NoCall
    /\ xt = BootXt
    /\ sio = <<>>
    /\ boots = 0
    /\ faults = 0
    /\ net = BootNet

Install == \E update \in BOOLEAN, gdb \in BOOLEAN, now \in Millis :
               abendHandlerInstall(update, gdb, now)
Callback == \E seconds \in Uptimes : custom_crash_callback(seconds)

(* The boot cycle: the sketch of examples/AbendAndBacktrace and its crashes. *)
SketchMessages == {<<Letter, LF>>}
SketchReturns  == {IRAM_BASE, CALLER_ADDR}
SketchFaults ==
    { [reason |-> REASON_EXCEPTION_RST, exccause |-> EXCCAUSE_ILLEGAL,
       epc1 |-> divide_by_0_exception, epc2 |-> 0],
      [reason |-> REASON_EXCEPTION_RST, exccause |-> EXCCAUSE_INSTR_PROHIBITED,
       epc1 |-> 0, epc2 |-> 0],
      [reason |-> REASON_EXCEPTION_RST, exccause |-> EXCCAUSE_ILLEGAL,
       epc1 |-> CODE_ADDR, epc2 |-> BP_ADDR],
      [reason |-> REASON_SOFT_WDT_RST, exccause |-> 0, epc1 |-> CODE_ADDR, epc2 |-> 0],
      [reason |-> REASON_USER_SWEXCEPTION_RST, exccause |-> 0, epc1 |-> 0, epc2 |-> 0] }

Next ==
    \/ Install
    \/ \E msg \in SketchMessages, a0 \in SketchReturns : ets_printf(msg, a0, 47)
    \/ \E f \in SketchFaults : Fault(f, CALLER_ADDR, LowUmm)
    \/ custom_crash_callback(5)
    \/ \E reason \in REASON_WDT_RST..REASON_EXT_SYS_RST : WarmReset(reason)
    \/ \E live \in NoInitRecords : PowerOn(live, StaleRecord)

Spec == Init /\ [][Next]_vars

(* The crash callback on every fault the platform can report. *)
FaultInputs ==
    [reason : {REASON_EXCEPTION_RST, REASON_SOFT_WDT_RST, REASON_USER_SWEXCEPTION_RST},
     exccause : {EXCCAUSE_ILLEGAL, EXCCAUSE_INSTR_PROHIBITED, EXCCAUSE_LOAD_PROHIBITED},
     epc1 : {0, InstrSpaceEnd, divide_by_0_exception, CODE_ADDR},
     epc2 : {0, BP_ADDR}]

NextClassify ==
    \/ Install
    \/ ets_printf(<<Letter, LF>>, IRAM_BASE, 47)
    \/ \E f \in FaultInputs, alloc \in {InitialUmm, LowUmm} : Fault(f, CALLER_ADDR, alloc)
    \/ Callback

SpecClassify == Init /\ [][NextClassify]_vars

(* The print interceptor on every return address, message and interrupt level. *)
ReturnAddrs ==
    {IRAM_BASE, IRAM_BASE + 5, IRAM_BASE + 10, IRAM_BASE + 15,
     IRAM_BASE + 20, IRAM_BASE + 24, IRAM_BASE + 28, IRAM_BASE + 1,
     IROM_BASE, IROM_BASE + 4, CALLER_ADDR}

PrintMessages == {<<CR, LF>>, <<Letter, LF>>, LongMessage}

NextPrint ==
    \/ Install
    \/ \E msg \in PrintMessages, a0 \in ReturnAddrs, ps \in PsValues : ets_printf(msg, a0, ps)
    \/ \E c \in Chars : rom_putc(c)

SpecPrint == Init /\ [][NextPrint]_vars

(* The checksum of the records the crash callback seals. *)
CrcFaults ==
    {[reason |-> REASON_EXCEPTION_RST, exccause |-> EXCCAUSE_ILLEGAL,
      epc1 |-> divide_by_0_exception, epc2 |-> 0],
     [reason |-> REASON_USER_SWEXCEPTION_RST, exccause |-> 0, epc1 |-> 0, epc2 |-> 0]}

NextCrc ==
    \/ \E update \in BOOLEAN : abendHandlerInstall(update, FALSE, 25)
    \/ \E f \in CrcFaults : Fault(f, CALLER_ADDR, LowUmm)
    \/ custom_crash_callback(5)
    \/ \E reason \in {REASON_EXCEPTION_RST, REASON_SOFT_RESTART, REASON_EXT_SYS_RST} : WarmReset(reason)

SpecCrc == Init /\ [][NextCrc]_vars

(* The promotion pass over the records a boot can find in .noinit memory.   *)
PromoteTags ==
    {REASON_EXCEPTION_RST, 100, REASON_SDK_PANIC, REASON_USER_STACK_SMASH,
     REASON_USER_SWEXCEPTION_RST}

\* what is in the live record at a boot: nothing, unsealed remains, or a
\* record sealed with one of the reason tags and addresses
PromoteRecords ==
    {ZeroAbendInfo, StaleRecord}
    \cup {Sealed([StaleRecord EXCEPT !.reason = t, !.epc1 = a]) :
              t \in PromoteTags, a \in {0, CALLER_ADDR, divide_by_0_exception}}

\* the restart information of the platform at a boot with reset reason r
BootRstInfo(r) ==
    IF r \in {REASON_WDT_RST, REASON_EXCEPTION_RST, REASON_SOFT_WDT_RST}
    THEN [reason |-> r, exccause |-> EXCCAUSE_LOAD_PROHIBITED, epc1 |-> CODE_ADDR, epc2 |-> 0]
    ELSE [ZeroRstInfo EXCEPT !.reason = r]

\* what abendHandlerInstall finds to patch: the state after a reset, putc1
\* in IRAM, a handler a sketch registered for cause 20 with the interrupt
\* level raised, and the same in a build without
\* ABENDINFO_REPLACE_ALL_DEFAULT_EXC_HANDLERS
XtVariants ==
    {BootXt,
     [BootXt EXCEPT !.putc1 = CODE_ADDR],
     [BootXt EXCEPT !.exc_table[EXCCAUSE_INSTR_PROHIBITED] = "sketch_handler",
                    !.intlevel = 3],
     [BootXt EXCEPT !.replace_all = FALSE],
     [BootXt EXCEPT !.replace_all = FALSE,
                    !.exc_table[EXCCAUSE_INSTR_PROHIBITED] = "sketch_handler"]}

InitPromote ==
    /\ phase = "boot"
    /\ abendInfo \in PromoteRecords
    /\ resetAbendInfo \in {StaleRecord, ZeroAbendInfo}
    /\ \E r \in REASON_DEFAULT_RST..REASON_EXT_SYS_RST : resetInfo = BootRstInfo(r)
    /\ rst_info = ZeroRstInfo
    /\ hw = ZeroRstInfo
    /\ excsave1 = 0
    /\ putc2 = "null"
    /\ umm = InitialUmm
    /\ call = NoCall
    /\ xt \in XtVariants
    /\ sio = <<>>
    /\ boots = 0
    /\ faults = 0
    /\ net = BootNet

NextPromote ==
    \/ Install
    \/ Fault([reason |-> REASON_EXCEPTION_RST, exccause |-> EXCCAUSE_ILLEGAL,
              epc1 |-> divide_by_0_exception, epc2 |-> 0], CALLER_ADDR, LowUmm)
    \/ custom_crash_callback(5)
    \/ WarmReset(REASON_EXCEPTION_RST)

SpecPromote == InitPromote /\ [][NextPromote]_vars

(* The last gasp from the print before the self-loop to the next boot.      *)
\* a message of line ends only, a short one, and one longer than the buffer
GaspMessages == {<<CR, LF>>, <<Letter + 1, CR, LF>>, <<LF>> \o LongMessage}

NextGasp ==
    \/ \E gdb \in BOOLEAN : abendHandlerInstall(FALSE, gdb, 25)
    \/ \E msg \in GaspMessages, a0 \in SketchReturns : ets_printf(msg, a0, 47)
    \/ rom_putc(Letter)
    \/ custom_crash_callback(5)
    \/ WarmReset(REASON_EXCEPTION_RST)

SpecGasp == Init /\ [][NextGasp]_vars

(* Everything a sketch and the platform call between two boots.             *)
HeapCheckTimes == {500, 2000}
\* an exception reset, a software restart and the reset pin
OpsResets == {REASON_EXCEPTION_RST, REASON_SOFT_RESTART, REASON_EXT_SYS_RST}

NextOps ==
    \/ abendHandlerInstall(FALSE, FALSE, 25)
    \/ \E a0 \in SketchReturns : ets_printf(<<Letter, LF>>, a0, 47)
    \/ rom_putc(Letter)
    \/ custom_crash_callback(5)
    \/ \E reason \in OpsResets : WarmReset(reason)
    \/ umm_malloc(LowUmm)
    \/ \E now \in HeapCheckTimes : abendInfo.low_count < MaxLowCount /\ abendIsHeapOK(now)
    \/ abendInfoReport(TRUE, 9)
    \/ abendInfoHeapReport

SpecOps == Init /\ [][NextOps]_vars

(* The heap monitor polled from loop() as time passes.                      *)
\* the polls the model follows
MaxPolls == 62

\* millis() at the polls: one before the check interval has passed since
\* the install pass, one exactly the interval after it, and then a little
\* more than the check interval apart
HeapPollTimes == {600, 1025} \cup {1100 * k : k \in 1..MaxPolls}

\* millis() at the install pass: shortly after the boot, and 300 ms before
\* millis() wraps
HeapInstallTimes == {25, -300}

NextHeap ==
    \/ \E now \in HeapInstallTimes : abendHandlerInstall(FALSE, FALSE, now)
    \/ \E alloc \in {InitialUmm, LowUmm} : umm_malloc(alloc)
    \/ \E now \in HeapPollTimes : now > abendInfo.last /\ abendIsHeapOK(now)

SpecHeap == Init /\ [][NextHeap]_vars

(* The SDK panic: a print before a self-loop, from the install pass to the  *)
(* promotion of the next boot, whatever reset ends the cycle.               *)
\* PS at the return of the ROM's print: interrupt levels 3 and 15
PanicPs == {35, 47}
\* a watchdog reset, a software restart and the reset pin
PanicResets == {REASON_WDT_RST, REASON_SOFT_RESTART, REASON_EXT_SYS_RST}

NextPanic ==
    \/ \E update \in BOOLEAN : abendHandlerInstall(update, FALSE, 25)
    \/ \E msg \in GaspMessages, a0 \in SketchReturns, ps \in PanicPs : ets_printf(msg, a0, ps)
    \/ rom_putc(Letter)
    \/ custom_crash_callback(5)
    \/ \E reason \in PanicResets : WarmReset(reason)

SpecPanic == Init /\ [][NextPanic]_vars

(* abendHandlerInstall called from preinit() and again from setup().         *)
\* millis() at the second call
SetupMillis == {40}

NextTwice ==
    \/ Install
    \/ \E update \in BOOLEAN, gdb \in BOOLEAN, now \in SetupMillis :
          abendInfo.last \in Millis /\ abendHandlerInstallAgain(update, gdb, now)

SpecTwice == InitPromote /\ [][NextTwice]_vars

(* The restart report of the boot after a fault.                            *)
\* a call of a NULL function pointer, a load from a prohibited address, and
\* the soft watchdog in a self-loop
ReportFaults ==
    { [reason |-> REASON_EXCEPTION_RST, exccause |-> EXCCAUSE_INSTR_PROHIBITED,
       epc1 |-> 0, epc2 |-> 0],
      [reason |-> REASON_EXCEPTION_RST, exccause |-> EXCCAUSE_LOAD_PROHIBITED,
       epc1 |-> CODE_ADDR, epc2 |-> 0],
      [reason |-> REASON_SOFT_WDT_RST, exccause |-> 0, epc1 |-> IRAM_BASE, epc2 |-> 0] }

NextReport ==
    \/ \E update \in BOOLEAN : abendHandlerInstall(update, FALSE, 25)
    \/ \E f \in ReportFaults : Fault(f, CALLER_ADDR, LowUmm)
    \/ custom_crash_callback(5)
    \/ \E reason \in {REASON_EXCEPTION_RST, REASON_SOFT_WDT_RST} : WarmReset(reason)
    \/ \E heap \in BOOLEAN : abendInfoReport(heap, 9)

SpecReport == Init /\ [][NextReport]_vars

----------------------------------------------------------------------------
(* Properties.                                                              *)

\* a step of abendHandlerInstall
InstallStep == phase = "boot" /\ phase' = "run"

\* a step of custom_crash_callback
CallbackStep == phase = "fault" /\ phase' = "crashed"

\* a reset or a power-on
ResetStep == phase # "boot" /\ phase' = "boot"

\* the step ends in the illegal instruction of the print interceptor
ForcedFault ==
    /\ faults' = faults
    /\ <<phase, rst_info, hw>>' # <<phase, rst_info, hw>>
    /\ phase' = "fault"
    /\ rst_info' = Illegal(ets_printf_sdk_panic)
    /\ hw' = Illegal(ets_printf_sdk_panic)
    /\ excsave1' = ets_printf_sdk_panic

\* the three bytes at address a are those of the self-loop "j ."
LoopAt(a) == IMemByte(a) = 6 /\ IMemByte(a + 1) = 255 /\ IMemByte(a + 2) = 255

HardResetReasons == {REASON_SOFT_WDT_RST, REASON_EXCEPTION_RST, REASON_WDT_RST}

\* C1: when the live record's checksum validates and the platform reports a
\* soft-WDT, exception or hardware-WDT reset, abendHandlerInstall leaves in
\* resetAbendInfo the live record exactly as it was on entry.
C1_PromotedIsLive ==
    [][(InstallStep /\ abendOK(abendInfo) /\ resetInfo.reason \in HardResetReasons)
         => resetAbendInfo' = abendInfo]_vars

\* A soft-WDT crash was archived and the next boot has promoted it.
C1_Witness ==
    /\ phase = "run"
    /\ boots = 1
    /\ resetInfo.reason = REASON_SOFT_WDT_RST
    /\ resetAbendInfo.reason = REASON_SOFT_WDT_RST
    /\ resetAbendInfo.epc1 = CODE_ADDR
    /\ abendOK(resetAbendInfo)

\* C2: when the live record's checksum does not validate, then for every
\* reset reason and either value of update abendHandlerInstall leaves
\* resetAbendInfo all zero and resetInfo as it was.
C2_InvalidNeverPromoted ==
    [][(InstallStep /\ ~abendOK(abendInfo))
         => (resetAbendInfo' = ZeroAbendInfo /\ resetInfo' = resetInfo)]_vars

\* A hardware-WDT reset found a live record that no crash callback had sealed.
C2_Witness ==
    /\ phase = "run"
    /\ boots = 1
    /\ resetInfo = [ZeroRstInfo EXCEPT !.reason = REASON_WDT_RST]
    /\ resetAbendInfo = ZeroAbendInfo

\* C3: after a power-on reset abendHandlerInstall leaves resetAbendInfo all
\* zero whatever the live record holds.
C3_PowerOnAlwaysZero ==
    [][(InstallStep /\ resetInfo.reason = REASON_DEFAULT_RST)
         => resetAbendInfo' = ZeroAbendInfo]_vars

\* C4 as stated: an exception with cause 0 whose address is the ROM's
\* divide-by-zero trap leaves the callback with cause 6 and the caller's
\* return address; with any other address, cause and address are unchanged.
C4_Original ==
    [][(CallbackStep /\ rst_info.reason = REASON_EXCEPTION_RST
                     /\ rst_info.exccause = EXCCAUSE_ILLEGAL)
         => IF rst_info.epc1 = divide_by_0_exception
            THEN /\ rst_info'.exccause = EXCCAUSE_DIVIDE_BY_ZERO
                 /\ rst_info'.epc1 = excsave1
            ELSE /\ rst_info'.exccause = EXCCAUSE_ILLEGAL
                 /\ rst_info'.epc1 = rst_info.epc1]_vars

\* C4: the same, for an exception with the breakpoint register zero and no
\* loop address in the live record; the live record takes the same cause and
\* address.
C4_DivideByZero ==
    [][(CallbackStep /\ rst_info.reason = REASON_EXCEPTION_RST
                     /\ rst_info.exccause = EXCCAUSE_ILLEGAL
                     /\ rst_info.epc2 = 0
                     /\ abendInfo.epc1 = 0)
         => /\ IF rst_info.epc1 = divide_by_0_exception
               THEN /\ rst_info'.exccause = EXCCAUSE_DIVIDE_BY_ZERO
                    /\ rst_info'.epc1 = excsave1
               ELSE /\ rst_info'.exccause = EXCCAUSE_ILLEGAL
                    /\ rst_info'.epc1 = rst_info.epc1
            /\ abendInfo'.exccause = rst_info'.exccause
            /\ abendInfo'.epc1 = rst_info'.epc1]_vars

\* The callback has turned the ROM's trap into a divide-by-zero at the caller.
C4_Witness ==
    /\ phase = "crashed"
    /\ hw = [reason |-> REASON_EXCEPTION_RST, exccause |-> EXCCAUSE_ILLEGAL,
             epc1 |-> divide_by_0_exception, epc2 |-> 0]
    /\ rst_info.exccause = EXCCAUSE_DIVIDE_BY_ZERO
    /\ rst_info.epc1 = CALLER_ADDR
    /\ abendInfo.exccause = EXCCAUSE_DIVIDE_BY_ZERO
    /\ abendInfo.epc1 = CALLER_ADDR

\* C5: for an exception with cause 20 whose address lies outside
\* [0x40000000, 0x40300000) the callback puts the caller's return address in
\* rst_info and in the live record, whatever the breakpoint register holds;
\* with an address inside the range it leaves the address as it was.
C5_NullCall ==
    [][(CallbackStep /\ rst_info.reason = REASON_EXCEPTION_RST
                     /\ rst_info.exccause = EXCCAUSE_INSTR_PROHIBITED)
         => IF rst_info.epc1 < XCHAL_INSTRAM0_VADDR \/ rst_info.epc1 >= InstrSpaceEnd
            THEN rst_info'.epc1 = excsave1 /\ abendInfo'.epc1 = excsave1
            ELSE rst_info'.epc1 = rst_info.epc1 /\ abendInfo'.epc1 = rst_info.epc1]_vars

\* A call through the first address past the range, with the breakpoint
\* register set, has been given the caller's return address.
C5_Witness ==
    /\ phase = "crashed"
    /\ hw = [reason |-> REASON_EXCEPTION_RST, exccause |-> EXCCAUSE_INSTR_PROHIBITED,
             epc1 |-> InstrSpaceEnd, epc2 |-> BP_ADDR]
    /\ rst_info.epc1 = CALLER_ADDR
    /\ abendInfo.epc1 = CALLER_ADDR
    /\ abendInfo.exccause = EXCCAUSE_INSTR_PROHIBITED

\* C6: for an exception with cause 0, the breakpoint register zero and a
\* nonzero address in the live record, the callback puts that address in
\* rst_info and makes the reason REASON_SDK_PANIC, also when the fault
\* address is the ROM's divide-by-zero trap.
C6_SdkPanic ==
    [][(CallbackStep /\ rst_info.reason = REASON_EXCEPTION_RST
                     /\ rst_info.exccause = EXCCAUSE_ILLEGAL
                     /\ rst_info.epc2 = 0
                     /\ abendInfo.epc1 # 0)
         => /\ rst_info'.epc1 = abendInfo.epc1
            /\ rst_info'.reason = REASON_SDK_PANIC
            /\ rst_info'.exccause = EXCCAUSE_ILLEGAL
            /\ abendInfo'.epc1 = abendInfo.epc1
            /\ abendInfo'.reason = REASON_SDK_PANIC]_vars

\* The print interceptor recorded a loop, forced its fault, and the callback
\* has archived an SDK panic at the loop's address.
C6_Witness ==
    /\ phase = "crashed"
    /\ hw = Illegal(ets_printf_sdk_panic)
    /\ call.a0 = IRAM_BASE
    /\ rst_info.reason = REASON_SDK_PANIC
    /\ rst_info.epc1 = IRAM_BASE
    /\ abendInfo.reason = REASON_SDK_PANIC
    /\ abendInfo.gasp[1] = Letter

\* C7: for an exception with the breakpoint register nonzero to which the
\* null-call rule does not apply, the callback leaves address, reason and
\* cause as the hardware reported them.
C7_Breakpoint ==
    [][(CallbackStep /\ rst_info.reason = REASON_EXCEPTION_RST
                     /\ rst_info.epc2 # 0
                     /\ ~(rst_info.exccause = EXCCAUSE_INSTR_PROHIBITED
                          /\ ~is_pc_valid(rst_info.epc1)))
         => /\ rst_info' = rst_info
            /\ abendInfo'.epc1 = rst_info.epc1
            /\ abendInfo'.reason = rst_info.reason
            /\ abendInfo'.exccause = rst_info.exccause]_vars

\* A breakpoint at the ROM's trap while the live record held a loop address
\* and its text: the report is the hardware's.
C7_Witness ==
    /\ phase = "crashed"
    /\ hw = [reason |-> REASON_EXCEPTION_RST, exccause |-> EXCCAUSE_ILLEGAL,
             epc1 |-> divide_by_0_exception, epc2 |-> BP_ADDR]
    /\ rst_info = hw
    /\ abendInfo.epc1 = divide_by_0_exception
    /\ abendInfo.reason = REASON_EXCEPTION_RST
    /\ abendInfo.gasp[1] = Letter

\* C8: with no address in the live record on entry, the print interceptor
\* records its return address in epc1 and PS.INTLEVEL in intlevel and
\* executes the illegal instruction exactly when the three bytes at the
\* return address are 06 FF FF, at every byte offset and interrupt level;
\* otherwise it returns and epc1 and intlevel are as they were.
C8_LoopDetection ==
    [][(abendInfo.epc1 = 0 /\ ~InstallStep /\ ~CallbackStep /\ ~ResetStep)
         => /\ (call' # call /\ LoopAt(call'.a0)) => ForcedFault
            /\ ForcedFault => /\ LoopAt(call'.a0)
                              /\ abendInfo'.epc1 = call'.a0
                              /\ abendInfo'.intlevel = call'.ps % 16
            /\ ~ForcedFault => /\ abendInfo'.epc1 = 0
                               /\ abendInfo'.intlevel = abendInfo.intlevel
                               /\ call' # call => phase' = phase]_vars

\* A print returned to a loop one byte past a word boundary at interrupt
\* level 3, and the interceptor has recorded both and faulted.
C8_Witness ==
    /\ phase = "fault"
    /\ call = [a0 |-> IRAM_BASE + 5, ps |-> 35]
    /\ abendInfo.epc1 = IRAM_BASE + 5
    /\ abendInfo.intlevel = 3
    /\ hw = Illegal(ets_printf_sdk_panic)
    /\ putc2 = "null"

\* C9: once the live record holds a nonzero address, no call of the print
\* interceptor changes it or forces a fault.
C9_FirstEventWins ==
    [][(abendInfo.epc1 # 0 /\ ~InstallStep /\ ~CallbackStep /\ ~ResetStep)
         => /\ abendInfo'.epc1 = abendInfo.epc1
            /\ ~ForcedFault
            /\ faults' = faults => <<phase, rst_info, hw>>' = <<phase, rst_info, hw>>]_vars

\* With 0x40100000 recorded, a later print has returned to the loop at
\* 0x40200000.
C9_Witness ==
    /\ abendInfo.epc1 = IRAM_BASE
    /\ call.a0 = IROM_BASE
    /\ LoopAt(IROM_BASE)
    /\ phase = "fault"

\* C10: in the buffer filled by _gasp_putc from index 0, idx never exceeds
\* ABENDINFO_GASP_SIZE - 2, so that a longer message is cut short, the last
\* byte is never written, and after an accepted character gasp[idx] is NUL.
C10_GaspBounded ==
    phase # "boot" =>
        /\ abendInfo.idx <= ABENDINFO_GASP_SIZE - 2
        /\ abendInfo.gasp[ABENDINFO_GASP_SIZE] = 0
        /\ abendInfo.idx > 0 => abendInfo.gasp[abendInfo.idx + 1] = 0

\* The buffer is full after a message longer than it holds.
C10_Witness ==
    /\ phase = "run"
    /\ Len(LongMessage) > ABENDINFO_GASP_SIZE - 2
    /\ abendInfo.idx = ABENDINFO_GASP_SIZE - 2
    /\ \A i \in 1..(ABENDINFO_GASP_SIZE - 2) : abendInfo.gasp[i] = LongMessage[i]
    /\ abendInfo.gasp[ABENDINFO_GASP_SIZE - 1] = 0

\* the bytes with bit b of the i-th byte inverted
FlipBit(bytes, i, b) == [bytes EXCEPT ![i] = Xor8(bytes[i], 2^b)]

\* no inversion of a single bit of the bytes leaves their checksum at crc
EveryFlipDetected(bytes, crc) ==
    \A i \in 1..Len(bytes), b \in 0..7 : crc32(FlipBit(bytes, i, b)) # crc

\* C11: a record the crash callback has sealed validates when it is read
\* back unchanged, and with any single bit of the bytes before crc inverted
\* it does not.
C11_ChecksumRoundTrip ==
    [][CallbackStep
         => /\ abendOK(abendInfo')
            /\ EveryFlipDetected(RecordBytes(abendInfo'), abendInfo'.crc)]_vars

\* A record sealed by the callback is in memory, unchanged, at the next boot.
C11_Witness ==
    /\ phase = "boot"
    /\ boots = 1
    /\ abendInfo.uptime = 5
    /\ abendInfo.exccause = EXCCAUSE_DIVIDE_BY_ZERO
    /\ abendInfo.heap = LowUmm.free
    /\ abendOK(abendInfo)

\* C12: when the crash callback returns, the live record's epc1, reason and exccause are those of rst_info after classification, its heap statistics are the allocator's counters, its uptime is the time of the crash, and its crc is the checksum of the fields before it.
C12_CallbackFinalisation ==
    [][CallbackStep => /\ rst_info' = Classify(rst_info, abendInfo, excsave1)
                       /\ abendInfo'.epc1 = rst_info'.epc1
                       /\ abendInfo'.reason = rst_info'.reason
                       /\ abendInfo'.exccause = rst_info'.exccause
                       /\ abendInfo'.oom = umm.oom
                       /\ abendInfo'.heap = umm.free
                       /\ abendInfo'.heap_min = umm.free_min
                       /\ abendInfo'.uptime \in Uptimes
                       /\ abendOK(abendInfo')]_vars

\* The callback has returned from a fault whose classification changed
\* rst_info, with the allocator's counters changed since the boot.
C12_Witness ==
    /\ phase = "crashed"
    /\ rst_info.reason = REASON_EXCEPTION_RST
    /\ rst_info.exccause = EXCCAUSE_DIVIDE_BY_ZERO
    /\ abendInfo.epc1 = rst_info.epc1
    /\ abendInfo.epc1 # divide_by_0_exception
    /\ umm = LowUmm
    /\ abendInfo.heap = LowUmm.free
    /\ abendInfo.uptime = 5
    /\ abendOK(abendInfo)

\* the fault of the scenario: an exception reset for an illegal instruction,
\* with the caller's return address in EXCSAVE1
ScenarioFault ==
    /\ rst_info.reason = REASON_EXCEPTION_RST
    /\ rst_info.exccause = EXCCAUSE_ILLEGAL
    /\ excsave1 = CALLER_ADDR

\* the record of the scenario: tagged divide-by-zero at the caller's address
ScenarioRecord(info) ==
    /\ info.reason = REASON_EXCEPTION_RST
    /\ info.exccause = EXCCAUSE_DIVIDE_BY_ZERO
    /\ info.epc1 = CALLER_ADDR

\* C13 as stated: the fault of the scenario with the address of the live record at the ROM's trap leaves, after the crash callback, the record tagged divide-by-zero at the caller's address.
C13_Original ==
    [][(CallbackStep /\ ScenarioFault /\ abendInfo.epc1 = divide_by_0_exception)
          => ScenarioRecord(abendInfo')]_vars

\* C13: the fault of the scenario with the platform's fault address at the ROM's trap, no breakpoint address and no address in the live record leaves, after the crash callback, a valid record tagged divide-by-zero at the caller's address; the exception reset keeps that record, and abendHandlerInstall promotes it.
C13_EndToEnd ==
    [][/\ (CallbackStep /\ ScenarioFault /\ rst_info.epc1 = divide_by_0_exception
                        /\ rst_info.epc2 = 0 /\ abendInfo.epc1 = 0)
          => (ScenarioRecord(abendInfo') /\ abendOK(abendInfo'))
       /\ (ResetStep /\ resetInfo'.reason = REASON_EXCEPTION_RST)
          => abendInfo' = abendInfo
       /\ (InstallStep /\ resetInfo.reason = REASON_EXCEPTION_RST
                       /\ ScenarioRecord(abendInfo) /\ abendOK(abendInfo))
          => (resetAbendInfo' = abendInfo /\ ScenarioRecord(resetAbendInfo'))]_vars

\* The scenario has run to its end: the record of a divide-by-zero fault,
\* stamped by the callback, has been promoted at the boot after the reset.
C13_Witness ==
    /\ phase = "run"
    /\ boots = 1
    /\ faults = 1
    /\ ScenarioRecord(resetAbendInfo)
    /\ resetAbendInfo.uptime = 5
    /\ resetAbendInfo.heap = LowUmm.free
    /\ abendOK(resetAbendInfo)

\* C14: when the reset reason of the boot is a software restart, a deep-sleep wake or an external reset, abendHandlerInstall leaves the promoted record all zero, whether or not the live record validates.
C14_NoFaultResetsZero ==
    [][(InstallStep /\ resetInfo.reason \in {REASON_SOFT_RESTART, REASON_DEEP_SLEEP_AWAKE,
                                              REASON_EXT_SYS_RST})
          => resetAbendInfo' = ZeroAbendInfo]_vars

\* C15 as stated: a live record that validates and carries a reason tag of 100 or more is copied to the promoted record whatever the reset reason of the boot.
C15_Original ==
    [][(InstallStep /\ abendOK(abendInfo) /\ abendInfo.reason >= 100)
          => resetAbendInfo' = abendInfo]_vars

\* C15: a live record that validates and carries a reason tag above 100 (101, 253, 254) is copied to the promoted record whatever the reset reason of the boot.
C15_SoftwareTagCopied ==
    [][(InstallStep /\ abendOK(abendInfo) /\ abendInfo.reason > 100)
          => resetAbendInfo' = abendInfo]_vars

\* A record tagged as a stack smash has been promoted at a boot whose reset
\* reason is none of the watchdog, exception or software-restart reasons.
C15_Witness ==
    /\ phase = "run"
    /\ boots = 0
    /\ resetInfo.reason = REASON_DEEP_SLEEP_AWAKE
    /\ resetAbendInfo.reason = REASON_USER_STACK_SMASH
    /\ resetAbendInfo.epc1 = CALLER_ADDR
    /\ abendOK(resetAbendInfo)

\* C16 as stated: when abendHandlerInstall returns, every field of the live record is zero.
C16_Original == [][InstallStep => abendInfo' = ZeroAbendInfo]_vars

\* C16: when abendHandlerInstall returns, every field of the live record but last is zero, and last holds the time of the call.
C16_LiveCleared ==
    [][InstallStep => /\ [abendInfo' EXCEPT !.last = 0] = ZeroAbendInfo
                      /\ abendInfo'.last \in Millis]_vars

\* abendHandlerInstall has returned after promoting a record with text and
\* an address: the live record it was copied from is cleared.
C16_Witness ==
    /\ phase = "run"
    /\ boots = 0
    /\ resetAbendInfo.reason = REASON_SDK_PANIC
    /\ resetAbendInfo.idx = 1
    /\ resetAbendInfo.epc1 = CALLER_ADDR
    /\ abendInfo.epc1 = 0
    /\ abendInfo.idx = 0
    /\ abendInfo.last = 25

\* a step of abendHandlerInstall(true)
UpdateStep == \E gdb \in BOOLEAN, now \in Millis : abendHandlerInstall(TRUE, gdb, now)

\* C17: when abendHandlerInstall(true) promotes the live record, by either test, resetInfo has on return the epc1, reason and exccause of the promoted record.
C17_UpdatePatchesResetInfo ==
    [][(UpdateStep /\ PromotionBranch(abendInfo, resetInfo.reason) # "none")
          => /\ resetInfo'.epc1 = resetAbendInfo'.epc1
             /\ resetInfo'.reason = resetAbendInfo'.reason
             /\ resetInfo'.exccause = resetAbendInfo'.exccause]_vars

\* the characters of msg that are neither CR nor LF
Strip(msg) == SelectSeq(msg, LAMBDA c : c # CR /\ c # LF)

\* the characters of text the last-gasp buffer has room for
Truncate(text) ==
    SubSeq(text, 1, IF Len(text) < ABENDINFO_GASP_SIZE - 2 THEN Len(text)
                    ELSE ABENDINFO_GASP_SIZE - 2)

\* the text of the record: the characters of gasp before the first NUL
GaspText(info) ==
    LET n == CHOOSE k \in 0..ABENDINFO_GASP_SIZE :
                 /\ \A j \in 1..k : info.gasp[j] # 0
                 /\ (k = ABENDINFO_GASP_SIZE \/ info.gasp[k + 1] = 0)
    IN  SubSeq(info.gasp, 1, n)

\* the step is a call ets_printf(msg, ...) that ends in the forced fault
DetectedAfter(msg) ==
    ForcedFault /\ \E a0 \in SketchReturns : ets_printf(msg, a0, 47)

\* from the crash callback on, the record of a detected self-loop reaches
\* the promoted record of the next boot with the text its index delimits
GaspCarried ==
    /\ (CallbackStep /\ rst_info = Illegal(ets_printf_sdk_panic) /\ abendInfo.epc1 # 0)
          => /\ GaspText(abendInfo') = SubSeq(abendInfo.gasp, 1, abendInfo.idx)
             /\ abendInfo'.reason = REASON_SDK_PANIC
             /\ abendOK(abendInfo')
    /\ (ResetStep /\ resetInfo'.reason # REASON_DEFAULT_RST) => abendInfo' = abendInfo
    /\ (InstallStep /\ abendInfo.reason = REASON_SDK_PANIC /\ abendOK(abendInfo))
          => resetAbendInfo' = abendInfo

\* C18 as stated: when the interceptor detects a self-loop after printing M, the live record holds, and the promoted record of the next boot receives, exactly the characters of M without CR and LF, truncated to the capacity of the buffer.
C18_Original ==
    [][/\ \A msg \in GaspMessages :
              DetectedAfter(msg)
                 => SubSeq(abendInfo'.gasp, 1, abendInfo'.idx) = Truncate(Strip(msg))
       /\ GaspCarried]_vars

\* C18: the same, when abendHandlerInstall has installed _gasp_putc as the putc2 hook (no debugger was attached).
C18_LastGasp ==
    [][/\ \A msg \in GaspMessages :
              (DetectedAfter(msg) /\ putc2 = "gasp")
                 => SubSeq(abendInfo'.gasp, 1, abendInfo'.idx) = Truncate(Strip(msg))
       /\ GaspCarried]_vars

\* The promoted record of the boot after a detected self-loop carries the
\* short message.
C18_Witness ==
    /\ phase = "run"
    /\ boots = 1
    /\ resetAbendInfo.reason = REASON_SDK_PANIC
    /\ resetAbendInfo.epc1 = IRAM_BASE
    /\ resetAbendInfo.idx = 1
    /\ GaspText(resetAbendInfo) = <<Letter + 1>>

\* C19: with a debugger attached, abendHandlerInstall leaves the exception table, the debug vector, the putc1 and putc2 hooks, the registers of the debug exception and the interrupt level as they were, and validates, promotes or zeroes, and clears the live record as it does without a debugger.
C19_DebuggerAttached ==
    [][\A update \in BOOLEAN, now \in Millis :
          abendHandlerInstall(update, TRUE, now)
             => /\ xt' = xt
                /\ putc2' = putc2
                /\ LET branch == PromotionBranch(abendInfo, resetInfo.reason)
                   IN  /\ resetAbendInfo' = Promoted(abendInfo, branch)
                       /\ resetInfo' = Patched(resetInfo, resetAbendInfo', branch, update)
                /\ abendInfo' = ClearedLive(abendInfo, now)]_vars

\* abendHandlerInstall has returned with nothing patched: the hooks, the
\* vector and the registers are those of the boot, and a record has been
\* promoted and the live record cleared.
C19_Witness ==
    /\ phase = "run"
    /\ boots = 0
    /\ xt = BootXt
    /\ putc2 = "null"
    /\ resetAbendInfo.reason = REASON_USER_SWEXCEPTION_RST
    /\ abendOK(resetAbendInfo)
    /\ abendInfo = ClearedLive(abendInfo, 25)

\* a power-on: the platform reports the default reset reason
PowerOnStep == ResetStep /\ resetInfo'.reason = REASON_DEFAULT_RST

\* C20: no step other than abendHandlerInstall (the print interceptor, _gasp_putc, the crash callback, abendIsHeapOK, abendInfoReport, abendInfoHeapReport, a reset that keeps the memory) changes a field of the promoted record.
C20_PromotedWrittenByInstallOnly ==
    [][(~InstallStep /\ ~PowerOnStep) => resetAbendInfo' = resetAbendInfo]_vars

\* Since the install of the second boot promoted a record, the heap monitor
\* has counted a low sample, a character has reached the last gasp, and a
\* report has been printed.
C20_Witness ==
    /\ phase = "run"
    /\ boots = 1
    /\ resetAbendInfo.reason = REASON_SDK_PANIC
    /\ abendOK(resetAbendInfo)
    /\ abendInfo.low_count > 0
    /\ abendInfo.idx > 0
    /\ Len(sio) > 5

\* a step of normal operation: after the install pass, before any fault
NormalStep == phase = "run" /\ phase' = "run"

\* the fields the prints write, and those the heap monitor writes
GaspFields(info) == <<info.idx, info.gasp>>
HeapFields(info) == <<info.oom, info.heap, info.heap_min, info.low_count, info.last>>
\* the fields that tell of a fault
FaultFields(info) ==
    <<info.uptime, info.reason, info.exccause, info.epc1, info.intlevel, info.crc>>

\* C21 as stated: in normal operation, between the install pass and the next fault, no step changes a field of the live record.
C21_Original == [][NormalStep => abendInfo' = abendInfo]_vars

\* C21: in normal operation no step changes uptime, reason, exccause, epc1, intlevel or crc of the live record; a print and _gasp_putc change idx and gasp only, and abendIsHeapOK changes oom, heap, heap_min, low_count and last only.
C21_LiveInNormalOperation ==
    [][NormalStep => /\ FaultFields(abendInfo') = FaultFields(abendInfo)
                     /\ \/ GaspFields(abendInfo') = GaspFields(abendInfo)
                        \/ HeapFields(abendInfo') = HeapFields(abendInfo)]_vars

\* In normal operation a character has reached the last gasp and the heap
\* monitor has counted a low sample; nothing tells of a fault.
C21_Witness ==
    /\ phase = "run"
    /\ faults = 0
    /\ net = BootNet
    /\ boots = 0
    /\ abendInfo.idx > 0
    /\ abendInfo.low_count > 0
    /\ abendInfo.heap = LowUmm.free
    /\ FaultFields(abendInfo) = FaultFields(ZeroAbendInfo)

\* C22: whatever the live record, the promoted record and the reset reason are at a boot, the tests of abendHandlerInstall (which has no other precondition) come to a decision, and when it returns the promoted record is all zero or is the live record as it was on entry, the latter only if that record validated.
C22_PromotionTotal ==
    [][/\ phase = "boot"
          => PromotionBranch(abendInfo, resetInfo.reason) \in {"soft", "hard", "none"}
       /\ InstallStep => \/ resetAbendInfo' = ZeroAbendInfo
                         \/ (resetAbendInfo' = abendInfo /\ abendOK(abendInfo))]_vars

\* abendHandlerInstall has returned at a boot after a power-on that found
\* unsealed remains in the live record: the promoted record, which held
\* remains too, is all zero.
C22_Witness ==
    /\ phase = "run"
    /\ boots = 0
    /\ resetInfo.reason = REASON_DEFAULT_RST
    /\ resetAbendInfo = ZeroAbendInfo
    /\ abendInfo = ClearedLive(abendInfo, 25)
    /\ xt.debug_vector = "new_debug_vector"

\* the least time, in milliseconds, that the consecutive low samples the
\* record counts span: two samples are more than kCheckIntervalMs apart
LowSpanMs(info) ==
    IF info.low_count = 0 THEN 0 ELSE (info.low_count - 1) * (kCheckIntervalMs + 1)

\* C23: abendIsHeapOK returns false once the free heap has been below 4096 bytes for 10 seconds of consecutive samples.
C23_TenSecondsLow ==
    [][\A now \in HeapPollTimes :
          (abendIsHeapOK(now) /\ abendInfo'.heap < 4096 /\ LowSpanMs(abendInfo') >= 10000)
             => ~HeapOK(abendInfo')]_vars

\* the fields under the checksum that the print interceptor and _gasp_putc
\* write
PrintFields(info) == <<info.idx, info.gasp, info.epc1, info.intlevel>>

\* C24: once the crash callback has stored the checksum, no call of the print
\* interceptor or of _gasp_putc before the reset changes idx, gasp, epc1 or
\* intlevel of the live record, and the record keeps validating.
C24_SealedUntilReset ==
    [][(phase = "crashed" /\ abendOK(abendInfo) /\ ~ResetStep)
          => /\ PrintFields(abendInfo') = PrintFields(abendInfo)
             /\ abendOK(abendInfo')]_vars

\* the step is the call ets_printf(msg, a0, ps), made with the _gasp_putc
\* hook installed, and it ends in the forced fault
PanicPrint(msg, a0, ps) == putc2 = "gasp" /\ ForcedFault /\ ets_printf(msg, a0, ps)

\* the live record holds the panic the interceptor captured
PanicCaptured == abendInfo.epc1 # 0 /\ rst_info = Illegal(ets_printf_sdk_panic)

\* from the forced fault on, the captured address, level and text reach the
\* promoted record of the next boot: nothing before the crash callback
\* changes them, the callback tags and seals them, nothing before the next
\* install pass changes the sealed record, and the install pass promotes it
\* whatever reset reason the platform reports
PanicCarried ==
    /\ (phase = "fault" /\ PanicCaptured /\ ~CallbackStep) => abendInfo' = abendInfo
    /\ (CallbackStep /\ PanicCaptured)
          => /\ abendInfo'.reason = REASON_SDK_PANIC
             /\ abendInfo'.epc1 = abendInfo.epc1
             /\ abendInfo'.intlevel = abendInfo.intlevel
             /\ GaspText(abendInfo') = SubSeq(abendInfo.gasp, 1, abendInfo.idx)
             /\ abendOK(abendInfo')
    /\ (phase = "crashed" /\ abendInfo.reason = REASON_SDK_PANIC) => abendInfo' = abendInfo
    /\ (InstallStep /\ abendInfo.reason = REASON_SDK_PANIC /\ abendOK(abendInfo))
          => resetAbendInfo' = abendInfo

\* C25 as stated: after abendHandlerInstall with no debugger, a print of M that returns to a self-loop at A at interrupt level L ends in the forced fault, and through the crash callback, the reset and the next abendHandlerInstall the promoted record gets reason 101, epc1 = A, intlevel = L and the text M without CR and LF, whatever the reset reason.
C25_Original ==
    [][/\ \A msg \in GaspMessages, a0 \in SketchReturns, ps \in PanicPs :
              PanicPrint(msg, a0, ps)
                 => /\ abendInfo'.epc1 = a0
                    /\ abendInfo'.intlevel = ps % 16
                    /\ SubSeq(abendInfo'.gasp, 1, abendInfo'.idx) = Strip(msg)
       /\ PanicCarried]_vars

\* C25: the same, with the text being the first ABENDINFO_GASP_SIZE - 2 characters of M without CR and LF.
C25_SdkPanicEndToEnd ==
    [][/\ \A msg \in GaspMessages, a0 \in SketchReturns, ps \in PanicPs :
              PanicPrint(msg, a0, ps)
                 => /\ abendInfo'.epc1 = a0
                    /\ abendInfo'.intlevel = ps % 16
                    /\ SubSeq(abendInfo'.gasp, 1, abendInfo'.idx) = Truncate(Strip(msg))
       /\ PanicCarried]_vars

\* After an external reset the promoted record carries the panic captured at
\* interrupt level 3 with the long message cut to the room of the buffer.
C25_Witness ==
    /\ phase = "run"
    /\ boots = 1
    /\ resetInfo.reason = REASON_EXT_SYS_RST
    /\ resetAbendInfo.reason = REASON_SDK_PANIC
    /\ resetAbendInfo.epc1 = IRAM_BASE
    /\ resetAbendInfo.intlevel = 3
    /\ resetAbendInfo.uptime = 5
    /\ GaspText(resetAbendInfo) = Truncate(LongMessage)

\* C26: only the crash callback stores a checksum (abendHandlerInstall clears it, a power-on leaves whatever the RAM holds), so a boot cycle that a reset ends in normal operation, before any crash callback, leaves the live record with the zero checksum of the install pass, and the next abendHandlerInstall, finding that the body does not sum to zero, leaves the promoted record all zero.
C26_PromotedAtMostOnce ==
    [][/\ abendInfo'.crc # abendInfo.crc => (CallbackStep \/ InstallStep \/ PowerOnStep)
       /\ InstallStep => abendInfo'.crc = ZeroCrc
       /\ (phase = "run" /\ ResetStep /\ ~PowerOnStep) => abendInfo'.crc = ZeroCrc
       /\ (InstallStep /\ abendInfo.crc = ZeroCrc /\ crc32(RecordBytes(abendInfo)) # ZeroCrc)
             => resetAbendInfo' = ZeroAbendInfo]_vars

\* The boot after a cycle that the reset pin ended without a crash callback
\* (a callback would have left a record tagged 101, which is promoted):
\* nothing is promoted, and the live record is cleared again.
C26_Witness ==
    /\ phase = "run"
    /\ boots = 1
    /\ resetInfo.reason = REASON_EXT_SYS_RST
    /\ resetAbendInfo = ZeroAbendInfo
    /\ abendInfo = ClearedLive(abendInfo, 25)

\* the ROM's handler of unhandled exceptions, and the handler the platform
\* registers for cause 0
IsRomDefault(handler) == handler = "ROM_xtos_unhandled_exception"
UnifiedHandler == "_xtos_c_handler_table[0]"

\* C27: in the build with ABENDINFO_REPLACE_ALL_DEFAULT_EXC_HANDLERS, after abendHandlerInstall without a debugger every slot 0..63 of the exception table that held the ROM's default handler on entry holds the unified handler, and every other slot holds what it held.
C27_ReplaceIfStillDefault ==
    [][\A update \in BOOLEAN, now \in Millis :
          (abendHandlerInstall(update, FALSE, now) /\ xt.replace_all)
             => \A i \in 0..63 :
                   xt'.exc_table[i] = IF IsRomDefault(xt.exc_table[i])
                                      THEN UnifiedHandler
                                      ELSE xt.exc_table[i]]_vars

\* After the install pass of the replace-all build the handler of a sketch
\* for cause 20 and the handler of the core for cause 3 are still in the
\* table, and the first and the last slot hold the unified handler.
C27_Witness ==
    /\ phase = "run"
    /\ putc2 = "gasp"
    /\ xt.replace_all
    /\ xt.exc_table[EXCCAUSE_INSTR_PROHIBITED] = "sketch_handler"
    /\ xt.exc_table[3] = "core_handler"
    /\ xt.exc_table[0] = UnifiedHandler
    /\ xt.exc_table[63] = UnifiedHandler

\* the handler of cause 20 in table
Slot20(table) == table[EXCCAUSE_INSTR_PROHIBITED]

\* C28 as stated: after abendHandlerInstall without a debugger the slot of cause 20 holds the unified handler, whatever it held before and in both builds.
C28_Original ==
    [][\A update \in BOOLEAN, now \in Millis :
          abendHandlerInstall(update, FALSE, now)
             => Slot20(xt'.exc_table) = UnifiedHandler]_vars

\* C28: after abendHandlerInstall without a debugger the slot of cause 20 holds the unified handler if the build is without ABENDINFO_REPLACE_ALL_DEFAULT_EXC_HANDLERS or the slot held the ROM's default handler; in the replace-all build a slot that held another handler keeps it.
C28_Cause20Redirected ==
    [][\A update \in BOOLEAN, now \in Millis :
          abendHandlerInstall(update, FALSE, now)
             => Slot20(xt'.exc_table) =
                   IF ~xt.replace_all \/ IsRomDefault(Slot20(xt.exc_table))
                   THEN UnifiedHandler
                   ELSE Slot20(xt.exc_table)]_vars

\* After the install pass of the build without replace-all only the slot of
\* cause 20 has been redirected.
C28_Witness ==
    /\ phase = "run"
    /\ putc2 = "gasp"
    /\ ~xt.replace_all
    /\ Slot20(xt.exc_table) = UnifiedHandler
    /\ IsRomDefault(xt.exc_table[0])
    /\ xt.debug_vector = "new_debug_vector"

\* what the block patches, at a point t of its trace: the output hooks, the
\* exception table, the debug vector and the registers of the debug exception
PatchedPlaces(t) ==
    <<t.xt.putc1, t.putc2, t.xt.exc_table, t.xt.debug_vector,
      t.xt.epc2, t.xt.epc3, t.xt.excsave2, t.xt.depc>>

\* C29: in abendHandlerInstall without a debugger every write to the output hooks, the exception table, the debug vector and the registers of the debug exception is made with the interrupt level at 15, the writes end in the state abendHandlerInstall returns with, and the interrupt level on return is the one on entry.
C29_PatchAtomicity ==
    [][\A update \in BOOLEAN, now \in Millis :
          abendHandlerInstall(update, FALSE, now)
             => LET t == InstallTrace(xt, putc2)
                IN  /\ \A k \in 1..(Len(t) - 1) :
                          PatchedPlaces(t[k + 1]) # PatchedPlaces(t[k])
                             => t[k].xt.intlevel = 15 /\ t[k + 1].xt.intlevel = 15
                    /\ t[1] = [xt |-> xt, putc2 |-> putc2]
                    /\ t[Len(t)] = [xt |-> xt', putc2 |-> putc2']
                    /\ xt'.intlevel = xt.intlevel]_vars

\* abendHandlerInstall has returned with everything patched and the
\* interrupt level 3 it was called at.
C29_Witness ==
    /\ phase = "run"
    /\ putc2 = "gasp"
    /\ xt.intlevel = 3
    /\ xt.putc1 = 0
    /\ Slot20(xt.exc_table) = "sketch_handler"
    /\ xt.debug_vector = "new_debug_vector"
    /\ xt.epc2 = 0 /\ xt.epc3 = 0 /\ xt.excsave2 = 0 /\ xt.depc = 0

\* the lines of the restart report that name a fault address found by
\* classification
ClassificationTexts ==
    {"Deliberate Infinite Loop @0x%08x", "Possible source of Exception 20 @0x%08x"}

\* C30: when abendHandlerInstall has promoted a record in this boot, the address abendInfoReport prints in its lines "Possible source of Exception 20" and "Deliberate Infinite Loop" is the epc1 of the promoted record, with update true or false.
C30_ReportUsesPromoted ==
    [][\A heap \in BOOLEAN :
          (abendInfoReport(heap, 9) /\ resetAbendInfo # ZeroAbendInfo)
             => \A k \in 1..Len(sio') :
                   sio'[k].text \in ClassificationTexts
                      => sio'[k].args = <<resetAbendInfo.epc1>>]_vars

\* the interceptor has recorded a loop address and forced the fault, and the
\* crash callback has not run yet
LoopRecorded ==
    phase = "fault" /\ abendInfo.epc1 # 0 /\ hw = Illegal(ets_printf_sdk_panic)

\* C31: the interceptor uninstalls the putc2 hook when it records a loop address, and from then until the crash callback no print changes the last-gasp buffer, its index or the interrupt level of the live record.
C31_FrozenAfterDetection ==
    [][/\ ForcedFault => putc2' = "null"
       /\ (LoopRecorded /\ ~CallbackStep)
             => /\ abendInfo'.gasp = abendInfo.gasp
                /\ abendInfo'.idx = abendInfo.idx
                /\ abendInfo'.intlevel = abendInfo.intlevel
                /\ putc2' = "null"]_vars

\* After the loop at 0x40100000 was recorded at interrupt level 3 with one
\* character buffered, a later print has returned elsewhere at level 15.
C31_Witness ==
    /\ LoopRecorded
    /\ abendInfo.epc1 = IRAM_BASE
    /\ abendInfo.intlevel = 3
    /\ abendInfo.idx = 1
    /\ abendInfo.gasp[1] = Letter
    /\ call = [a0 |-> CALLER_ADDR, ps |-> 47]

C33_ResetInfoUntouched ==
    [][\A gdb \in BOOLEAN, now \in Millis :
          /\ abendHandlerInstall(FALSE, gdb, now) => resetInfo' = resetInfo
          /\ (/\ abendHandlerInstall(TRUE, gdb, now)
              /\ (resetAbendInfo' = ZeroAbendInfo \/ resetAbendInfo'.epc1 = 0))
                => resetInfo' = resetInfo]_vars

\* After an exception reset a record with a zero address has been promoted,
\* and resetInfo still holds what the platform reported.
C33_Witness ==
    /\ phase = "run"
    /\ boots = 0
    /\ resetAbendInfo.reason = REASON_EXCEPTION_RST
    /\ resetAbendInfo.epc1 = 0
    /\ resetAbendInfo.crc # ZeroCrc
    /\ resetInfo = BootRstInfo(REASON_EXCEPTION_RST)

\* the step is a second call of abendHandlerInstall in the boot
InstallAgainStep ==
    \E update \in BOOLEAN, gdb \in BOOLEAN, now \in SetupMillis :
        abendHandlerInstallAgain(update, gdb, now)

\* C34 as stated: a second call of abendHandlerInstall in the same boot, with no fault in between, leaves the promoted record as the first call set it.
C34_Original == [][InstallAgainStep => resetAbendInfo' = resetAbendInfo]_vars

\* C34: a second call of abendHandlerInstall in the same boot, with no fault in between, finds the live record the first call cleared, whose checksum field is zero; unless the body sums to zero it promotes nothing, leaves the promoted record all zero and resetInfo as it was.
C34_SecondCallClears ==
    [][(/\ InstallAgainStep
        /\ abendInfo.crc = ZeroCrc
        /\ crc32(RecordBytes(abendInfo)) # ZeroCrc)
          => /\ resetAbendInfo' = ZeroAbendInfo
             /\ resetInfo' = resetInfo]_vars

\* The first call promoted a record and patched its address into resetInfo;
\* the second call has zeroed the promoted record.
C34_Witness ==
    /\ phase = "run"
    /\ abendInfo = ClearedLive(abendInfo, 40)
    /\ resetInfo.reason = REASON_EXCEPTION_RST
    /\ resetInfo.epc1 = CALLER_ADDR
    /\ resetAbendInfo = ZeroAbendInfo

\* the halves of a 32-bit value
Lo16(v) == v % 65536
Hi16(v) == (v \div 65536) % 65536

\* now - last in uint32_t is above ms (ms below 2^16): the subtraction with
\* borrow on the halves
ElapsedOver(now, last, ms) ==
    LET borrow == IF Lo16(now) < Lo16(last) THEN 1 ELSE 0
        dl     == Lo16(now) - Lo16(last) + 65536 * borrow
        dh     == (Hi16(now) - Hi16(last) - borrow) % 65536
    IN  dh > 0 \/ dl > ms

----------------------------------------------------------------------------
(* The network monitor polled from loop() as the minutes pass.              *)

\* millis() at the calls: the first minutes after the start and the minutes
\* around the timeout
NetTimes == {60000 * k : k \in {0, 2} \cup 22..MaxNetMinutes}
\* the sketch switches the monitor in the first minutes
NetSwitchTimes == {t \in NetTimes : t <= kNetChkInterval}
\* rxblock_cnt of the WiFi library's pools
RxCounts == {7, 8}
\* What a call finds.  NoAddress: WiFi.localIP() is unset.  DownEnvs, all a
\* call reads while netmon.up is false: the address and the interface list.
\* UpEnvs, while netmon.up is true: an ARP entry of the gateway, pending or
\* stable, with pbuf_alloc succeeding or not; or no entry, and the result of
\* the request sent.
NoAddress ==
    [ip |-> 0, netif |-> "NULL", rx |-> 7, arp |-> "none", pbuf |-> TRUE,
     request |-> ERR_OK, deref |-> "trap"]
NetEnvs ==
    LET DownEnvs ==
            {NoAddress}
            \cup {[NoAddress EXCEPT !.ip = 1, !.netif = i] : i \in {"NULL", "sta"}}
        UpEnvs ==
            {NoAddress}
            \cup [ip : {1}, netif : {"NULL"}, rx : RxCounts, arp : {"pending", "stable"},
                  pbuf : BOOLEAN, request : {ERR_OK}, deref : {"trap", "garbage"}]
            \cup [ip : {1}, netif : {"NULL"}, rx : RxCounts, arp : {"none"},
                  pbuf : {TRUE}, request : {ERR_OK, ERR_MEM}, deref : {"trap", "garbage"}]
    IN  IF net.netmon.up THEN UpEnvs ELSE DownEnvs

InitNet ==
    /\ phase = "run"
    /\ abendInfo = ZeroAbendInfo
    /\ resetAbendInfo = ZeroAbendInfo
    /\ resetInfo = ZeroRstInfo
    /\ rst_info = ZeroRstInfo
    /\ hw = ZeroRstInfo
    /\ excsave1 = 0
    /\ putc2 = "gasp"
    /\ umm = InitialUmm
    /\ call = NoCall
    /\ xt = BootXt
    /\ sio = <<>>
    /\ boots = 0
    /\ faults = 0
    /\ net \in {[BootNet EXCEPT !.literal = l] : l \in BOOLEAN}

NextNet ==
    \/ \E enable \in BOOLEAN, now \in NetSwitchTimes, rx \in RxCounts :
           abendEnableNetworkMonitor(enable, now, rx)
    \/ \E now \in NetTimes, e \in NetEnvs : abendCheckNetwork(now, e)

SpecNet == InitNet /\ [][NextNet]_vars

----------------------------------------------------------------------------
(* The network monitor's return value.                                      *)

\* now - then in uint32_t, from the 16-bit halves with borrow (differences
\* below 2^31)
Elapsed32(now, then) ==
    LET borrow == IF Lo16(now) < Lo16(then) THEN 1 ELSE 0
        dl     == Lo16(now) - Lo16(then) + 65536 * borrow
        dh     == (Hi16(now) - Hi16(then) - borrow) % 65536
    IN  dh * 65536 + dl

\* C36: abendCheckNetwork returns a code other than ERR_OK exactly in the calls that perform a health check (monitor enabled, at least 2 minutes since netmon.interval) and find more than 20 minutes elapsed since last_ok or since rx_last_ok, and such a call sets netmon.restart; ERR_MEM, ERR_IF, ERR_INPROGRESS and ERR_CLSD are returned only then; a call with the monitor disabled returns ERR_OK and leaves netmon and p_ebCxt as they were.
C36_NonOkOnlyOnTimeout ==
    [][net'.op \in {"off", "early", "check"} =>
          LET now      == net'.now
              m        == net.netmon
              performs == m.enabled /\ Elapsed32(now, m.interval) >= 120000
              timeout  == \/ Elapsed32(now, net'.netmon.last_ok) > 1200000
                          \/ Elapsed32(now, net'.netmon.rx_last_ok) > 1200000
          IN  /\ (net'.ret # ERR_OK) <=> (performs /\ timeout)
              /\ (performs /\ timeout) => net'.netmon.restart
              /\ net'.ret \in {ERR_OK, ERR_TIMEOUT, ERR_MEM, ERR_IF, ERR_INPROGRESS, ERR_CLSD}
              /\ ~m.enabled => /\ net'.ret = ERR_OK
                               /\ net'.netmon = m
                               /\ net'.p_ebCxt = net.p_ebCxt]_vars
\* a health check whose gateway request failed for lack of memory, returned
\* as that error because the timeout had passed
C36_Witness ==
    /\ net.op = "check"
    /\ net.ret = ERR_MEM
    /\ net.netmon.restart
    /\ net.netmon.up

----------------------------------------------------------------------------
(* The network monitor's start.                                             *)

\* C37 as stated: after any abendEnableNetworkMonitor(true) the monitor is in the down state, and abendCheckNetwork neither returns non-OK nor sets netmon.restart until more than 20 minutes have elapsed since that call or since the latest down-to-up transition.
C37_Original ==
    /\ (net.op \in {"enable", "same"} /\ net.netmon.enabled) => ~net.netmon.up
    /\ (net.netmon.enabled /\ (net.netmon.restart \/ (net.op = "check" /\ net.ret # ERR_OK)))
           => /\ Elapsed32(net.now, net.asked) > 1200000
              /\ Elapsed32(net.now, net.started) > 1200000

\* C37: after an abendEnableNetworkMonitor(true) that finds the monitor disabled the monitor is in the down state with netmon.restart clear, and abendCheckNetwork neither returns non-OK nor sets netmon.restart until more than 20 minutes have elapsed since that call or since the latest down-to-up transition, whatever the interface state in between; an abendEnableNetworkMonitor(true) that finds the monitor enabled changes nothing.
C37_NoRestartBeforeStarted ==
    /\ (net.op = "enable" /\ net.netmon.enabled) => (~net.netmon.up /\ ~net.netmon.restart)
    /\ (net.netmon.enabled /\ (net.netmon.restart \/ (net.op = "check" /\ net.ret # ERR_OK)))
           => Elapsed32(net.now, net.started) > 1200000
\* the interface came up two minutes after the start and the restart
\* condition was flagged more than 20 minutes later
C37_Witness ==
    /\ net.op = "check"
    /\ net.ret # ERR_OK
    /\ net.netmon.restart
    /\ net.netmon.up
    /\ net.started = 120000

----------------------------------------------------------------------------
(* The network monitor's restart flag and what abendIsNetworkOK reports.    *)

\* C38: while netmon.restart is set (from the health check that flagged the restart condition until the monitor is switched again or the interface goes down and comes up), every call of abendIsNetworkOK returns false, the calls between two health checks included.
C38_RestartLatched ==
    (net.netmon.enabled /\ net.netmon.restart /\ net.op \in {"early", "check"})
        => ~NetworkOK(net)

----------------------------------------------------------------------------
(* The network monitor's interface pointer.                                 *)

\* C39: abendCheckNetwork never dereferences a null netmon.netif: whenever netmon.up is true netmon.netif is non-null, also after a down-to-up transition in which no entry of the interface list carried the local address, and no health check faults on the pointer.
C39_NetifNeverNull ==
    /\ net.netmon.up => net.netmon.netif # "NULL"
    /\ net.op # "trap"

----------------------------------------------------------------------------
(* The network monitor on a healthy network: the interface has its address, *)
(* the interface list holds it and the gateway's ARP entry is stable at     *)
(* every health check.                                                      *)

\* loop() calls every other minute
HealthyTimes == {60000 * k : k \in {j \in 0..MaxNetMinutes : j % 2 = 0}}
HealthyEnvs ==
    [ip : {1}, netif : {"sta"}, rx : RxCounts, arp : {"stable"}, pbuf : {TRUE},
     request : {ERR_OK}, deref : {"garbage"}]

NextHealthy ==
    \/ \E now \in NetSwitchTimes, rx \in RxCounts : abendEnableNetworkMonitor(TRUE, now, rx)
    \/ \E now \in HealthyTimes, e \in HealthyEnvs : abendCheckNetwork(now, e)

SpecHealthy == InitNet /\ [][NextHealthy]_vars

\* C40: when p_ebCxt could not be located (getRxBlockCnt always 0) and the interface stays up with the gateway's ARP entry stable at every health check, abendCheckNetwork keeps returning ERR_OK and never sets netmon.restart.
C40_HealthyNeverFlagged ==
    (net.p_ebCxt = "NULL" /\ net.netmon.enabled)
        => /\ ~net.netmon.restart
           /\ net.op \in {"early", "check"} => net.ret = ERR_OK

====
